---- MODULE Spec2Model ----
(***************************************************************************)
(* Model of the authorization and anti-forgery guard layer of alx-polly:   *)
(* the server actions of app/lib/actions/poll-actions.ts and               *)
(* admin-actions.ts, and the token guard of app/lib/csrf.ts.               *)
(*                                                                         *)
(* The row store (tables polls and votes) is shared by all requests.  The  *)
(* CSRF token lives in a cookie: each browser session keeps it in its      *)
(* cookie jar, every request carries the jar's value as of the moment it   *)
(* is sent, and a response's Set-Cookie replaces the jar's value.          *)
(* Every await on the row store is a point where requests interleave.      *)
(* cache holds the rendered views that are kept for reuse; revalidatePath   *)
(* drops the views of a path.                                              *)
(***************************************************************************)
EXTENDS Integers, Sequences, FiniteSets, TLC

VARIABLES polls, votes, jar, form, nextTok, nextPollId, reqs, cache

vars == <<polls, votes, jar, form, nextTok, nextPollId, reqs, cache>>

----------------------------------------------------------------------------
(* Bounds of the model.                                                    *)

\* requests sent in one behaviour
MaxReq == 2

\* views of a poll's page in one behaviour, on top of the requests
MaxViews == 1

----------------------------------------------------------------------------
(* Text: a string is a sequence of one-character strings.                  *)

MaxQuestionLen == 500
MaxOptionLen == 200

Whitespace == {" ", "\t", "\n"}
ScriptTag == <<"<", "s", "c", "r", "i", "p", "t">>
JsScheme == <<"j", "a", "v", "a", "s", "c", "r", "i", "p", "t", ":">>
LtEntity == <<"&", "l", "t", ";">>
GtEntity == <<"&", "g", "t", ";">>

\* String.prototype.includes
Includes(t, pat) ==
  \E i \in 1..(Len(t) - Len(pat) + 1) : SubSeq(t, i, i + Len(pat) - 1) = pat

\* String.prototype.replace(/c/g, rep): every c of t becomes rep (t is
\* split in halves, which keeps the evaluation shallow for long texts)
RECURSIVE ReplaceAll(_, _, _)
ReplaceAll(t, c, rep) ==
  IF t = <<>> THEN <<>>
  ELSE IF Len(t) = 1 THEN (IF t[1] = c THEN rep ELSE t)
  ELSE LET h == Len(t) \div 2
       IN ReplaceAll(SubSeq(t, 1, h), c, rep) \o ReplaceAll(SubSeq(t, h + 1, Len(t)), c, rep)

RECURSIVE TrimStart(_)
TrimStart(t) ==
  IF t # <<>> /\ Head(t) \in Whitespace THEN TrimStart(Tail(t)) ELSE t

RECURSIVE TrimEnd(_)
TrimEnd(t) ==
  IF t # <<>> /\ t[Len(t)] \in Whitespace THEN TrimEnd(SubSeq(t, 1, Len(t) - 1)) ELSE t

\* String.prototype.trim
Trim(t) == TrimEnd(TrimStart(t))

\* faulty variant: the text is escaped but not trimmed
SanitizeNoTrim(t) == ReplaceAll(ReplaceAll(t, "<", LtEntity), ">", GtEntity)

\* .replace(/</g, '&lt;').replace(/>/g, '&gt;').trim()
Sanitize(t) == Trim(ReplaceAll(ReplaceAll(t, "<", LtEntity), ">", GtEntity))

\* formData.getAll("options").filter(Boolean): empty strings are dropped
FilterBoolean(opts) == SelectSeq(opts, LAMBDA o : o # <<>>)

HasScript(t) == Includes(t, ScriptTag) \/ Includes(t, JsScheme)

----------------------------------------------------------------------------
(* Results of the operations.                                              *)

Ok == "ok"
Pending == "pending"
ErrMissingToken == "Missing security token"
ErrInvalidToken == "Invalid security token. Please refresh the page and try again."
ErrInvalidTokenVote == "Invalid security token. Please refresh and try again."
ErrInput == "Please provide a question and at least two options."
ErrQuestionLong == "Question is too long. Maximum 500 characters allowed."
ErrOptionLong == "Option text is too long. Maximum 200 characters allowed."
ErrOptionChars == "Invalid characters detected in options."
ErrQuestionChars == "Invalid characters detected in question."
ErrLoginCreate == "You must be logged in to create a poll."
ErrLoginVote == "You must be logged in to vote."
ErrLoginDelete == "You must be logged in to delete a poll."
ErrLoginUpdate == "You must be logged in to update a poll."
ErrAlreadyVoted == "You have already voted on this poll."
ErrInvalidOption == "Invalid option selected"
ErrDeleteOwn == "You can only delete your own polls"
ErrUpdateOwn == "You can only update your own polls"
\* error.message of a failure the row store reports for a statement
StoreMessage == "store: error.message"
\* if (!poll) return { error: "Poll not found" }
ErrPollNotFound == "Poll not found"
\* the row store's own message when .single() finds no row
ErrStoreNoRow == "store: no rows returned"
RedirectLogin == "redirect:/login"
RedirectPolls == "redirect:/polls"

\* csrfProtection: the messages of the errors it throws
ErrCsrfMissing == "CSRF token missing"
ErrCsrfInvalid == "Invalid or expired CSRF token"
ErrMissingPollId == "Missing poll_id"
ErrNotAuthenticated == "Not authenticated"
\* the second copy of poll-actions.ts imports revalidatePath from
\* "next/navigation", which has no such export: the call throws
ThrowNotAFunction == "throw: revalidatePath is not a function"
\* getAuthenticatedUser: throw new Error("User not authenticated.")
ThrowNotAuthenticated == "throw: User not authenticated."

Redirects == {RedirectLogin, RedirectPolls}
\* the ends of a call that are no returned result: redirect() throws its
\* signal through the caller, like any other exception
Thrown == Redirects \cup {ThrowNotAuthenticated}
TokenErrors == {ErrMissingToken, ErrInvalidToken, ErrInvalidTokenVote}

\* faulty variant: all lengths are checked before any script marker
OptionsErrorLengthsFirst(opts) ==
  IF \E k \in 1..Len(opts) : Len(opts[k]) > MaxOptionLen THEN ErrOptionLong
  ELSE IF \E k \in 1..Len(opts) : HasScript(opts[k]) THEN ErrOptionChars
  ELSE Ok

\* the loop over the options of createPoll/updatePoll: the first option, in
\* order, that is too long or holds a script marker decides
RECURSIVE OptionsError(_)
OptionsError(opts) ==
  IF opts = <<>> THEN Ok
  ELSE IF Len(Head(opts)) > MaxOptionLen THEN ErrOptionLong
  ELSE IF HasScript(Head(opts)) THEN ErrOptionChars
  ELSE OptionsError(Tail(opts))

\* faulty variant: the length of the question is not checked
ValidatePollInputNoLength(question, options) ==
  IF question = <<>> \/ Len(options) < 2 THEN ErrInput
  ELSE IF OptionsError(options) # Ok THEN OptionsError(options)
  ELSE IF HasScript(question) THEN ErrQuestionChars
  ELSE Ok

\* faulty variant: one option is enough
ValidatePollInputOneOption(question, options) ==
  IF question = <<>> \/ Len(options) < 1 THEN ErrInput
  ELSE IF Len(question) > MaxQuestionLen THEN ErrQuestionLong
  ELSE IF OptionsError(options) # Ok THEN OptionsError(options)
  ELSE IF HasScript(question) THEN ErrQuestionChars
  ELSE Ok

\* the input checks of createPoll/updatePoll; options is the filtered list
ValidatePollInput(question, options) ==
  IF question = <<>> \/ Len(options) < 2 THEN ErrInput
  ELSE IF Len(question) > MaxQuestionLen THEN ErrQuestionLong
  ELSE IF OptionsError(options) # Ok THEN OptionsError(options)
  ELSE IF HasScript(question) THEN ErrQuestionChars
  ELSE Ok

SanitizeOptions(options) == [i \in 1..Len(options) |-> Sanitize(options[i])]

----------------------------------------------------------------------------
(* Identities and sessions.                                                *)

NoUser == "none"
Users == {"alice", "bob"}
\* user_metadata.isAdmin
IsAdmin(u) == u = "bob"

\* browser sessions; SessionUser is what supabase.auth.getUser() resolves
Sessions == {"sa", "sb", "sn"}
SessionUser(s) == CASE s = "sa" -> "alice" [] s = "sb" -> "bob" [] OTHER -> NoUser

----------------------------------------------------------------------------
(* Inputs of the requests.                                                 *)

\* a token is named by the session it was generated for and a serial number
\* (crypto.randomBytes(32): no two generated tokens are equal)
NoToken == <<"", 0>>
\* faulty variant: the token is a counter value, the same in every session
FreshTokenShared(s) == <<"sa", nextTok[s]>>
FreshToken(s) == <<s, nextTok[s]>>

\* a text of n characters c
Rep(n, c) == [i \in 1..n |-> c]

\* submitted forms: question and the repeated options field
Forms == <<
  [question |-> <<" ", "a", "<", "b", ">">>, options |-> << <<"x">>, <<>>, <<"<", "y">> >>],
  [question |-> <<"q">>, options |-> << <<"o">> >>],
  [question |-> <<>>, options |-> << <<"x">>, <<"y">> >>],
  [question |-> Rep(MaxQuestionLen + 1, "q"), options |-> << <<"x">>, Rep(MaxOptionLen + 1, "o") >>],
  [question |-> <<"q">>, options |-> << ScriptTag \o <<">">>, Rep(MaxOptionLen + 1, "o") >>],
  [question |-> <<"q">>, options |-> << Rep(MaxOptionLen + 1, "o"), JsScheme >>],
  [question |-> <<"a">> \o JsScheme, options |-> << Rep(MaxOptionLen, "o"), <<"y">> >>],
  [question |-> ScriptTag, options |-> << <<"x">>, Rep(MaxOptionLen + 1, "o") >>],
  [question |-> Rep(MaxQuestionLen, "q"), options |-> << <<" ">>, <<" ", ">", "\t">>, <<"<", "S">> >>],
  [question |-> Rep(MaxQuestionLen + 1, "q"), options |-> << ScriptTag >>],
  [question |-> ScriptTag, options |-> << <<"x">>, JsScheme >>],
  [question |-> Rep(MaxQuestionLen, "<"), options |-> << Rep(MaxOptionLen, ">"), <<"y">> >>],
  [question |-> Rep(MaxQuestionLen + 1, "<"), options |-> << <<"x">>, <<"y">> >>] >>
FormIds == DOMAIN Forms

\* what the input checks of createPoll/updatePoll answer for each form, and
\* the sanitized question and options written for it
InputError == [f \in FormIds |->
  ValidatePollInput(Forms[f].question, FilterBoolean(Forms[f].options))]
Sanitized == [f \in FormIds |->
  [question |-> Sanitize(Forms[f].question),
   options |-> SanitizeOptions(FilterBoolean(Forms[f].options))]]

PollIds == {1, 2}
\* a form without the poll_id field
NoPollId == 0

\* the poll present at the start, written by an earlier createPoll of alice
SeedPoll == [id |-> 1, user_id |-> "alice", created_at |-> 1,
             question |-> <<"Q">>, options |-> << <<"a">>, <<"b">>, <<"c">> >>]

----------------------------------------------------------------------------
(* The row store.                                                          *)

\* .from("polls").select(...).eq("id", id)
PollRows(id) == {p \in polls : p.id = id}

\* .from("votes").select("id").eq("poll_id", pollId).eq("user_id", userId)
VoteRows(pollId, userId) ==
  {i \in DOMAIN votes : votes[i].poll_id = pollId /\ votes[i].user_id = userId}

\* .from("polls").delete().eq("id", id)
DeleteById(id) == {p \in polls : p.id # id}

\* faulty variant: the update stamps the row with a new created_at
UpdateWhereTouch(id, userId, q, opts) ==
  {IF p.id = id /\ p.user_id = userId
     THEN [p EXCEPT !.question = q, !.options = opts, !.created_at = nextPollId]
     ELSE p : p \in polls}

\* .from("polls").update({question, options}).eq("id", id).eq("user_id", userId)
UpdateWhere(id, userId, q, opts) ==
  {IF p.id = id /\ p.user_id = userId
     THEN [p EXCEPT !.question = q, !.options = opts] ELSE p : p \in polls}

\* faulty variant: the store gives a new row the lowest id that is free
InsertPollLowestId(userId, q, opts) ==
  LET free == {n \in 1..nextPollId : \A p \in polls : p.id # n}
      id == CHOOSE n \in free : \A m \in free : n <= m
  IN polls \cup {[id |-> id, user_id |-> userId, created_at |-> nextPollId,
                   question |-> q, options |-> opts]}

\* .from("polls").insert([{user_id, question, options}]); the store assigns
\* the id and created_at
InsertPoll(userId, q, opts) ==
  polls \cup {[id |-> nextPollId, user_id |-> userId, created_at |-> nextPollId,
               question |-> q, options |-> opts]}

\* faulty variant: oldest first
RECURSIVE OrderAsc(_)
OrderAsc(S) ==
  IF S = {} THEN <<>>
  ELSE LET oldest == CHOOSE p \in S : \A q \in S : p.created_at <= q.created_at
       IN <<oldest>> \o OrderAsc(S \ {oldest})

\* .from("polls").select("*").eq("user_id", userId)
PollsOf(userId) == {p \in polls : p.user_id = userId}

\* .order("created_at", { ascending: false }) of a set of poll rows
RECURSIVE OrderDesc(_)
OrderDesc(S) ==
  IF S = {} THEN <<>>
  ELSE LET newest == CHOOSE p \in S : \A q \in S : q.created_at <= p.created_at
       IN <<newest>> \o OrderDesc(S \ {newest})

\* faulty variant: an upsert, the user's earlier row for the poll is replaced
InsertVoteUpsert(pollId, userId, idx) ==
  Append(SelectSeq(votes, LAMBDA v : ~(v.poll_id = pollId /\ v.user_id = userId)),
         [poll_id |-> pollId, user_id |-> userId, option_index |-> idx])

\* .from("votes").insert([{poll_id, user_id, option_index}])
InsertVote(pollId, userId, idx) ==
  Append(votes, [poll_id |-> pollId, user_id |-> userId, option_index |-> idx])

----------------------------------------------------------------------------
(* The token guard.                                                        *)

\* faulty variant: any token is accepted once a cookie is there
ValidateCsrfTokenNoCompare(stored, token) ==
  ~(stored = NoToken \/ token = NoToken)

\* validateCsrfToken: stored is the csrf_token cookie of the request
ValidateCsrfToken(stored, token) ==
  ~(stored = NoToken \/ token = NoToken \/ token # stored)

\* faulty variant: the token is not validated, only required to be present
CsrfCheckPresenceOnly(stored, token, invalidMsg) ==
  IF token = NoToken THEN ErrMissingToken ELSE Ok

\* the check every mutating action makes first: Ok, or the token error
CsrfCheck(stored, token, invalidMsg) ==
  IF token = NoToken THEN ErrMissingToken
  ELSE IF ~ValidateCsrfToken(stored, token) THEN invalidMsg
  ELSE Ok

----------------------------------------------------------------------------
(* Requests.  A request is sent by a browser session, carries the cookie   *)
(* the jar holds at that moment and runs the server action in steps.       *)

InFlight == {i \in DOMAIN reqs : reqs[i].pc # "done"}
Finished == {i \in DOMAIN reqs : reqs[i].pc = "done"}

\* faulty variant: a user_id in the payload is taken for the caller
UserFromPayload(r) == IF r.userId # NoUser THEN r.userId ELSE SessionUser(r.sess)

\* the caller of a request: supabase.auth.getUser() of its session
User(r) == SessionUser(r.sess)

\* tokens a client of session s can put into the csrf_token field: none, or
\* the token rendered into a page of one of the sessions of T
Candidates(T) == {form[t] : t \in T}

NewRequest(s, op, tok, pollId, idx, f) ==
  [op |-> op, sess |-> s, csrf |-> tok, stored |-> jar[s], pollId |-> pollId,
   idx |-> idx, form |-> f, pc |-> "start", result |-> Pending, valid |-> "none",
   setCookie |-> NoToken, wrote |-> 0, seenVotes |-> -1, seenLen |-> -1,
   seenOwner |-> NoUser, rows |-> <<>>, path |-> <<>>, userId |-> NoUser,
   revalidate |-> {}, storeError |-> FALSE]

Send(s, op, tok, pollId, idx, f) ==
  /\ Len(reqs) < MaxReq
  /\ reqs' = Append(reqs, NewRequest(s, op, tok, pollId, idx, f))
  /\ UNCHANGED <<polls, votes, jar, form, nextTok, nextPollId, cache>>

\* the requests of each kind, with the session drawn from S, the token from
\* the pages of T (all sessions) or of the sender alone, and the arguments
\* from P, X and F
SendCreatePoll(S, T, F) ==
  \E s \in S : \E tok \in Candidates(T \cup {s}), f \in F :
    Send(s, "createPoll", tok, 0, 0, f)
SendUpdatePoll(S, T, P, F) ==
  \E s \in S : \E tok \in Candidates(T \cup {s}), p \in P, f \in F :
    Send(s, "updatePoll", tok, p, 0, f)
SendDeletePoll(S, T, P) ==
  \E s \in S : \E tok \in Candidates(T \cup {s}), p \in P :
    Send(s, "deletePoll", tok, p, 0, 0)
\* updatePoll or deletePoll with a user_id field added to the payload
SendWithUserId(S, O, P, F, U) ==
  \E s \in S : \E tok \in Candidates({s}), op \in O, p \in P, f \in F, u \in U :
    /\ Len(reqs) < MaxReq
    /\ reqs' = Append(reqs, [NewRequest(s, op, tok, p, 0, f) EXCEPT !.userId = u])
    /\ UNCHANGED <<polls, votes, jar, form, nextTok, nextPollId, cache>>
SendAdminDeletePoll(S, T, P) ==
  \E s \in S : \E tok \in Candidates(T \cup {s}), p \in P :
    Send(s, "adminDeletePoll", tok, p, 0, 0)
SendSubmitVote(S, T, P, X) ==
  \E s \in S : \E tok \in Candidates(T \cup {s}), p \in P, x \in X :
    Send(s, "submitVote", tok, p, x, 0)
SendAdminDeletePollForm(S, T, P) ==
  \E s \in S : \E tok \in Candidates(T \cup {s}), p \in P :
    Send(s, "adminDeletePollForm", tok, p, 0, 0)
\* the variants of the actions that take no token (the second copies in
\* poll-actions.ts and admin-actions.ts)
SendV2(S, O, P, X, F) ==
  \E s \in S : \E op \in O, p \in P, x \in X, f \in F : Send(s, op, NoToken, p, x, f)
\* the reads take no token
SendGetAdminPolls(S) == \E s \in S : Send(s, "getAdminPolls", NoToken, 0, 0, 0)
SendGetUserPolls(S) == \E s \in S : Send(s, "getUserPolls", NoToken, 0, 0, 0)
SendValidateCsrfToken(S, T) ==
  \E s \in S : \E tok \in Candidates(T \cup {s}) :
    Send(s, "validateCsrfToken", tok, 0, 0, 0)

\* the page of a poll is requested
SendPollPage(S, P) ==
  \E s \in S : \E p \in P :
    /\ Cardinality({i \in DOMAIN reqs : reqs[i].op = "pollPage"}) < MaxViews
    /\ reqs' = Append(reqs, NewRequest(s, "pollPage", NoToken, p, 0, 0))
    /\ UNCHANGED <<polls, votes, jar, form, nextTok, nextPollId, cache>>

\* a page is requested: the request carries its path
SendPage(S, Ps) ==
  \E s \in S : \E p \in Ps :
    /\ Len(reqs) < MaxReq
    /\ reqs' = Append(reqs, [NewRequest(s, "page", NoToken, 0, 0, 0) EXCEPT !.path = p])
    /\ UNCHANGED <<polls, votes, jar, form, nextTok, nextPollId, cache>>

----------------------------------------------------------------------------
(* Steps of the server actions.                                            *)

\* faulty variant: a passed check leaves the token as it is
AfterCheckNoRotation(r, tokErr) ==
  IF tokErr = Ok THEN [r EXCEPT !.valid = "yes"]
  ELSE IF r.csrf = NoToken THEN r
  ELSE [r EXCEPT !.valid = "no"]

\* the request after its token check: a passed check has rotated the token
\* (generateCsrfToken inside validateCsrfToken sets the cookie anew)
AfterCheck(r, tokErr) ==
  IF tokErr = Ok THEN [r EXCEPT !.valid = "yes", !.setCookie = FreshToken(r.sess)]
  ELSE IF r.csrf = NoToken THEN r
  ELSE [r EXCEPT !.valid = "no"]

\* the paths of the poll list and of the detail view of a poll
PollsPath == <<"polls">>
PollPath(id) == <<"polls", id>>

\* revalidatePath for each path of a set: the cached views of these paths
\* are dropped
RevalidatePaths(paths) == {c \in cache : c.path \notin paths}

\* the action returns: the response reaches the browser, Set-Cookie included;
\* the paths it has revalidated on its way are dropped from the cache
Done(i, r, res) ==
  /\ reqs' = [reqs EXCEPT ![i] = [r EXCEPT !.pc = "done", !.result = res]]
  /\ jar' = IF r.setCookie # NoToken THEN [jar EXCEPT ![r.sess] = r.setCookie] ELSE jar
  /\ cache' = RevalidatePaths(r.revalidate)

\* the action goes on to its next await
Goto(i, r, pc) ==
  /\ reqs' = [reqs EXCEPT ![i] = [r EXCEPT !.pc = pc]]
  /\ jar' = jar
  /\ cache' = cache

\* faulty variant: the login check is skipped
NotLoggedInSkipped(u) == FALSE

\* !user
NotLoggedIn(u) == u = NoUser

\* faulty variant: the ownership check is skipped
NotOwnerSkipped(ownerId, userId) == FALSE

\* poll.user_id !== user.id
NotOwner(ownerId, userId) == ownerId # userId

\* faulty variant: one earlier vote is let through
HasVotedTwice(existing) == Cardinality(existing) > 1

\* faulty variant: the existing votes are never looked at
HasVotedIgnored(existing) == FALSE

\* existingVotes && existingVotes.length > 0
HasVoted(existing) == Cardinality(existing) > 0

\* faulty variant: the upper end of the range is one too far
BadIndexOffByOne(idx, len) == idx < 0 \/ idx > len

\* optionIndex < 0 || optionIndex >= poll.options.length
BadIndex(idx, len) == idx < 0 \/ idx >= len

CreatePoll(i) ==
  LET r == reqs[i]
      tokErr == CsrfCheck(r.stored, r.csrf, ErrInvalidToken)
      r1 == AfterCheck(r, tokErr)
      inErr == InputError[r.form]
  IN /\ r.op = "createPoll" /\ r.pc = "start"
     /\ nextTok' = IF tokErr = Ok THEN [nextTok EXCEPT ![r.sess] = @ + 1] ELSE nextTok
     /\ IF tokErr # Ok THEN Done(i, r1, tokErr) /\ UNCHANGED <<polls, nextPollId>>
        ELSE IF inErr # Ok THEN Done(i, r1, inErr) /\ UNCHANGED <<polls, nextPollId>>
        ELSE IF NotLoggedIn(User(r))
          THEN Done(i, r1, ErrLoginCreate) /\ UNCHANGED <<polls, nextPollId>>
        ELSE /\ polls' = InsertPoll(User(r), Sanitized[r.form].question, Sanitized[r.form].options)
             /\ nextPollId' = nextPollId + 1
             /\ Done(i, [r1 EXCEPT !.wrote = 1, !.revalidate = {PollsPath}], Ok)
     /\ UNCHANGED <<votes, form>>

\* submitVote up to its first read of the store (the user's votes)
SubmitVoteCheck(i) ==
  LET r == reqs[i]
      tokErr == CsrfCheck(r.stored, r.csrf, ErrInvalidTokenVote)
      r1 == AfterCheck(r, tokErr)
      existing == VoteRows(r.pollId, User(r))
      r2 == [r1 EXCEPT !.seenVotes = Cardinality(existing)]
  IN /\ r.op = "submitVote" /\ r.pc = "start"
     /\ nextTok' = IF tokErr = Ok THEN [nextTok EXCEPT ![r.sess] = @ + 1] ELSE nextTok
     /\ IF tokErr # Ok THEN Done(i, r1, tokErr)
        ELSE IF NotLoggedIn(User(r)) THEN Done(i, r1, ErrLoginVote)
        ELSE IF HasVoted(existing) THEN Done(i, r2, ErrAlreadyVoted)
        ELSE Goto(i, r2, "readPoll")
     /\ UNCHANGED <<polls, votes, form, nextPollId>>

\* submitVote reads the poll's options and checks the index
SubmitVoteReadPoll(i) ==
  LET r == reqs[i]
      rows == PollRows(r.pollId)
      len == Len((CHOOSE p \in rows : TRUE).options)
  IN /\ r.op = "submitVote" /\ r.pc = "readPoll"
     /\ IF rows = {} THEN Done(i, r, ErrStoreNoRow)
        ELSE IF BadIndex(r.idx, len) THEN Done(i, [r EXCEPT !.seenLen = len], ErrInvalidOption)
        ELSE Goto(i, [r EXCEPT !.seenLen = len], "insert")
     /\ UNCHANGED <<polls, votes, form, nextTok, nextPollId>>

\* submitVote inserts the vote row
SubmitVoteInsert(i) ==
  LET r == reqs[i]
  IN /\ r.op = "submitVote" /\ r.pc = "insert"
     /\ votes' = InsertVote(r.pollId, User(r), r.idx)
     /\ Done(i, [r EXCEPT !.wrote = 1, !.revalidate = {PollPath(r.pollId)}], Ok)
     /\ UNCHANGED <<polls, form, nextTok, nextPollId>>

\* deletePoll up to its ownership check
DeletePollCheck(i) ==
  LET r == reqs[i]
      tokErr == CsrfCheck(r.stored, r.csrf, ErrInvalidToken)
      r1 == AfterCheck(r, tokErr)
      rows == PollRows(r.pollId)
      owner == (CHOOSE p \in rows : TRUE).user_id
  IN /\ r.op = "deletePoll" /\ r.pc = "start"
     /\ nextTok' = IF tokErr = Ok THEN [nextTok EXCEPT ![r.sess] = @ + 1] ELSE nextTok
     /\ IF tokErr # Ok THEN Done(i, r1, tokErr)
        ELSE IF NotLoggedIn(User(r)) THEN Done(i, r1, ErrLoginDelete)
        ELSE IF rows = {} THEN Done(i, r1, ErrStoreNoRow)
        ELSE IF NotOwner(owner, User(r))
          THEN Done(i, [r1 EXCEPT !.seenOwner = owner], ErrDeleteOwn)
        ELSE Goto(i, [r1 EXCEPT !.seenOwner = owner], "write")
     /\ UNCHANGED <<polls, votes, form, nextPollId>>

\* deletePoll deletes the row by id
DeletePollWrite(i) ==
  LET r == reqs[i]
  IN /\ r.op = "deletePoll" /\ r.pc = "write"
     /\ polls' = DeleteById(r.pollId)
     /\ Done(i, [r EXCEPT !.wrote = Cardinality(PollRows(r.pollId)),
                          !.revalidate = {PollsPath}], Ok)
     /\ UNCHANGED <<votes, form, nextTok, nextPollId>>

\* updatePoll up to its ownership check
UpdatePollCheck(i) ==
  LET r == reqs[i]
      tokErr == CsrfCheck(r.stored, r.csrf, ErrInvalidToken)
      r1 == AfterCheck(r, tokErr)
      inErr == InputError[r.form]
      rows == PollRows(r.pollId)
      owner == (CHOOSE p \in rows : TRUE).user_id
  IN /\ r.op = "updatePoll" /\ r.pc = "start"
     /\ nextTok' = IF tokErr = Ok THEN [nextTok EXCEPT ![r.sess] = @ + 1] ELSE nextTok
     /\ IF tokErr # Ok THEN Done(i, r1, tokErr)
        ELSE IF inErr # Ok THEN Done(i, r1, inErr)
        ELSE IF NotLoggedIn(User(r)) THEN Done(i, r1, ErrLoginUpdate)
        ELSE IF rows = {} THEN Done(i, r1, ErrStoreNoRow)
        ELSE IF NotOwner(owner, User(r))
          THEN Done(i, [r1 EXCEPT !.seenOwner = owner], ErrUpdateOwn)
        ELSE Goto(i, [r1 EXCEPT !.seenOwner = owner], "write")
     /\ UNCHANGED <<polls, votes, form, nextPollId>>

\* updatePoll writes the sanitized question and options
UpdatePollWrite(i) ==
  LET r == reqs[i]
      hit == {p \in PollRows(r.pollId) : p.user_id = User(r)}
  IN /\ r.op = "updatePoll" /\ r.pc = "write"
     /\ polls' = UpdateWhere(r.pollId, User(r), Sanitized[r.form].question,
                             Sanitized[r.form].options)
     /\ Done(i, [r EXCEPT !.wrote = Cardinality(hit),
                          !.revalidate = {PollsPath, PollPath(r.pollId)}], Ok)
     /\ UNCHANGED <<votes, form, nextTok, nextPollId>>

\* faulty variant: the admin flag is not looked at
CheckAdminAccessLoginOnly(u) == IF u = NoUser THEN RedirectLogin ELSE Ok

\* faulty variant: the gate lets everyone through
CheckAdminAccessOpen(u) == Ok

\* checkAdminAccess: Ok, or the redirect it ends in
CheckAdminAccess(u) ==
  IF u = NoUser THEN RedirectLogin
  ELSE IF ~IsAdmin(u) THEN RedirectPolls
  ELSE Ok

\* faulty variant: the token is checked, and rotated, before the gate
AdminDeletePollTokenFirst(i) ==
  LET r == reqs[i]
      gate == CheckAdminAccess(User(r))
      tokErr == CsrfCheck(r.stored, r.csrf, ErrInvalidToken)
      r1 == AfterCheck(r, tokErr)
  IN /\ r.op = "adminDeletePoll" /\ r.pc = "start"
     /\ nextTok' = IF tokErr = Ok THEN [nextTok EXCEPT ![r.sess] = @ + 1] ELSE nextTok
     /\ IF tokErr # Ok THEN Done(i, r1, tokErr) /\ polls' = polls
        ELSE IF gate # Ok THEN Done(i, r1, gate) /\ polls' = polls
        ELSE /\ polls' = DeleteById(r.pollId)
             /\ Done(i, [r1 EXCEPT !.wrote = Cardinality(PollRows(r.pollId))], Ok)
     /\ UNCHANGED <<votes, form, nextPollId>>

AdminDeletePoll(i) ==
  LET r == reqs[i]
      gate == CheckAdminAccess(User(r))
      tokErr == CsrfCheck(r.stored, r.csrf, ErrInvalidToken)
      r1 == AfterCheck(r, tokErr)
  IN /\ r.op = "adminDeletePoll" /\ r.pc = "start"
     /\ nextTok' = IF gate = Ok /\ tokErr = Ok THEN [nextTok EXCEPT ![r.sess] = @ + 1] ELSE nextTok
     /\ IF gate # Ok THEN Done(i, r, gate) /\ polls' = polls
        ELSE IF tokErr # Ok THEN Done(i, r1, tokErr) /\ polls' = polls
        ELSE /\ polls' = DeleteById(r.pollId)
             /\ Done(i, [r1 EXCEPT !.wrote = Cardinality(PollRows(r.pollId))], Ok)
     /\ UNCHANGED <<votes, form, nextPollId>>

\* getUserPolls: the caller's polls, newest first
GetUserPolls(i) ==
  LET r == reqs[i]
  IN /\ r.op = "getUserPolls" /\ r.pc = "start"
     /\ IF NotLoggedIn(User(r)) THEN Done(i, r, ErrNotAuthenticated)
        ELSE Done(i, [r EXCEPT !.rows = OrderDesc(PollsOf(User(r)))], Ok)
     /\ UNCHANGED <<polls, votes, form, nextTok, nextPollId>>

\* getAdminPolls: the gate, then all polls, newest first
GetAdminPolls(i) ==
  LET r == reqs[i]
      gate == CheckAdminAccess(User(r))
  IN /\ r.op = "getAdminPolls" /\ r.pc = "start"
     /\ IF gate # Ok THEN Done(i, r, gate)
        ELSE Done(i, [r EXCEPT !.rows = OrderDesc(polls)], Ok)
     /\ UNCHANGED <<polls, votes, form, nextTok, nextPollId>>

\* checkAdminAccess of helpers.ts: getAuthenticatedUser throws for a missing
\* identity, a non-admin is redirected
CheckAdminAccessHelpers(u) ==
  IF u = NoUser THEN ThrowNotAuthenticated
  ELSE IF ~IsAdmin(u) THEN RedirectPolls
  ELSE Ok

\* csrfProtection, its thrown error caught by the caller: Ok or the message
CsrfProtection(stored, token) ==
  IF token = NoToken THEN ErrCsrfMissing
  ELSE IF ~ValidateCsrfToken(stored, token) THEN ErrCsrfInvalid
  ELSE Ok

\* adminDeletePoll(formData) of helpers.ts
AdminDeletePollForm(i) ==
  LET r == reqs[i]
      gate == CheckAdminAccessHelpers(User(r))
      tokErr == CsrfProtection(r.stored, r.csrf)
      r1 == AfterCheck(r, tokErr)
  IN /\ r.op = "adminDeletePollForm" /\ r.pc = "start"
     /\ nextTok' = IF gate = Ok /\ tokErr = Ok THEN [nextTok EXCEPT ![r.sess] = @ + 1] ELSE nextTok
     /\ IF gate # Ok THEN Done(i, r, gate) /\ polls' = polls
        ELSE IF tokErr # Ok THEN Done(i, r1, tokErr) /\ polls' = polls
        ELSE IF r.pollId = NoPollId THEN Done(i, r1, ErrMissingPollId) /\ polls' = polls
        ELSE /\ polls' = DeleteById(r.pollId)
             /\ Done(i, [r1 EXCEPT !.wrote = Cardinality(PollRows(r.pollId))], Ok)
     /\ UNCHANGED <<votes, form, nextPollId>>

\* validateCsrfToken called as a server action of its own
ValidateCsrfTokenCall(i) ==
  LET r == reqs[i]
      pass == ValidateCsrfToken(r.stored, r.csrf)
  IN /\ r.op = "validateCsrfToken" /\ r.pc = "start"
     /\ nextTok' = IF pass THEN [nextTok EXCEPT ![r.sess] = @ + 1] ELSE nextTok
     /\ IF pass THEN Done(i, [r EXCEPT !.valid = "yes", !.setCookie = FreshToken(r.sess)], "true")
        ELSE Done(i, [r EXCEPT !.valid = "no"], "false")
     /\ UNCHANGED <<polls, votes, form, nextPollId>>

\* the sum of the values of a function
RECURSIVE SumOf(_)
SumOf(f) ==
  IF DOMAIN f = {} THEN 0
  ELSE LET k == CHOOSE k \in DOMAIN f : TRUE
       IN f[k] + SumOf([j \in DOMAIN f \ {k} |-> f[j]])

\* .from('votes').select('option_index').eq('poll_id', id)
VoteIndices(pollId) ==
  LET rows == SelectSeq(votes, LAMBDA v : v.poll_id = pollId)
  IN [k \in 1..Len(rows) |-> rows[k].option_index]

\* PollDetailPage: counts[idx] = (counts[idx] || 0) + 1 over the vote rows
Counts(indices) ==
  [idx \in {indices[k] : k \in 1..Len(indices)} |->
     Cardinality({k \in 1..Len(indices) : indices[k] = idx})]

\* SecurePollPage: every option starts at 0, then each counted index is
\* assigned its count
VotesByOption(len, counts) ==
  [k \in (0..(len - 1)) \cup DOMAIN counts |->
     IF k \in DOMAIN counts THEN counts[k] ELSE 0]

\* the page of a poll: a token for its form, then the results of the poll
PollPage(i) ==
  LET r == reqs[i]
      rows == PollRows(r.pollId)
      poll == CHOOSE p \in rows : TRUE
      indices == VoteIndices(r.pollId)
      votesByOption == VotesByOption(Len(poll.options), Counts(indices))
      shown == [options |-> Len(poll.options), indices |-> indices,
                userVoted |-> ~NotLoggedIn(User(r)) /\ HasVoted(VoteRows(r.pollId, User(r))),
                votesByOption |-> votesByOption, totalVotes |-> SumOf(votesByOption)]
      r1 == [r EXCEPT !.setCookie = FreshToken(r.sess)]
  IN /\ r.op = "pollPage" /\ r.pc = "start"
     /\ nextTok' = [nextTok EXCEPT ![r.sess] = @ + 1]
     /\ form' = [form EXCEPT ![r.sess] = FreshToken(r.sess)]
     /\ IF rows = {} THEN Done(i, r1, "notFound")
        ELSE Done(i, [r1 EXCEPT !.rows = <<shown>>], Ok)
     /\ UNCHANGED <<polls, votes, nextPollId>>

\* getPollById: .from("polls").select("*").eq("id", id).single(); no row is
\* an error of the store
GetPollById(id) ==
  IF PollRows(id) = {} THEN [poll |-> <<>>, error |-> ErrStoreNoRow]
  ELSE [poll |-> <<CHOOSE p \in PollRows(id) : TRUE>>, error |-> Ok]

\* getPollById is called as a server action
SendGetPollById(S, P) == \E s \in S : \E p \in P : Send(s, "getPollById", NoToken, p, 0, 0)

\* faulty variant: the poll is returned to its owner only
GetPollByIdCallScoped(i) ==
  LET r == reqs[i]
      got == GetPollById(r.pollId)
  IN /\ r.op = "getPollById" /\ r.pc = "start"
     /\ IF got.error = Ok /\ got.poll[1].user_id # SessionUser(r.sess)
          THEN Done(i, r, ErrStoreNoRow)
          ELSE Done(i, [r EXCEPT !.rows = got.poll], got.error)
     /\ UNCHANGED <<polls, votes, form, nextTok, nextPollId>>

\* getPollById: the row, or the error of the store; the caller is not
\* looked at
GetPollByIdCall(i) ==
  LET r == reqs[i]
      got == GetPollById(r.pollId)
  IN /\ r.op = "getPollById" /\ r.pc = "start"
     /\ Done(i, [r EXCEPT !.rows = got.poll], got.error)
     /\ UNCHANGED <<polls, votes, form, nextTok, nextPollId>>

\* redirect(`/polls/${params.id}`)
RedirectPoll(id) == "redirect:/polls/" \o ToString(id)
NotFound == "notFound"

\* the edit page of a poll is requested
SendEditPage(S, P) == \E s \in S : \E p \in P : Send(s, "editPage", NoToken, p, 0, 0)

\* faulty variant: the token is generated before the checks
EditPollPageTokenFirst(i) ==
  LET r == reqs[i]
      got == GetPollById(r.pollId)
      user == SessionUser(r.sess)
      r1 == [r EXCEPT !.setCookie = FreshToken(r.sess)]
  IN /\ r.op = "editPage" /\ r.pc = "start"
     /\ nextTok' = [nextTok EXCEPT ![r.sess] = @ + 1]
     /\ form' = [form EXCEPT ![r.sess] = FreshToken(r.sess)]
     /\ IF got.error # Ok THEN Done(i, r1, NotFound)
        ELSE IF user = NoUser \/ got.poll[1].user_id # user
          THEN Done(i, r1, RedirectPoll(r.pollId))
        ELSE Done(i, [r1 EXCEPT !.rows = got.poll], Ok)
     /\ UNCHANGED <<polls, votes, nextPollId>>

\* EditPollPage: not-found for an absent poll, a redirect to the poll's view
\* for everyone but its owner, and for the owner a token and the form
EditPollPage(i) ==
  LET r == reqs[i]
      got == GetPollById(r.pollId)
      user == SessionUser(r.sess)
      r1 == [r EXCEPT !.setCookie = FreshToken(r.sess), !.rows = got.poll]
  IN /\ r.op = "editPage" /\ r.pc = "start"
     /\ IF got.error # Ok
          THEN Done(i, r, NotFound) /\ UNCHANGED <<nextTok, form>>
        ELSE IF user = NoUser \/ got.poll[1].user_id # user
          THEN Done(i, r, RedirectPoll(r.pollId)) /\ UNCHANGED <<nextTok, form>>
        ELSE /\ nextTok' = [nextTok EXCEPT ![r.sess] = @ + 1]
             /\ form' = [form EXCEPT ![r.sess] = FreshToken(r.sess)]
             /\ Done(i, r1, Ok)
     /\ UNCHANGED <<polls, votes, nextPollId>>

\* the "Delete Poll" form of AdminPage: the page was rendered for session s
\* (checkAdminAccess passed, getAdminPolls gave the polls listed) and the form
\* of one of the polls listed is submitted; its action calls
\* adminDeletePoll(poll.id), in either copy of it, and passes no token
AdminPath == <<"admin">>
AdminPageDelete(s) ==
  \E i \in Finished : \E op \in {"adminDeletePoll", "adminDeletePollV2"} :
    LET page == reqs[i] IN
      /\ page.op = "getAdminPolls" /\ page.sess = s /\ page.result = Ok
      /\ \E k \in DOMAIN page.rows :
           /\ Len(reqs) < MaxReq
           /\ reqs' = Append(reqs, [NewRequest(s, op, NoToken, page.rows[k].id, 0, 0)
                                      EXCEPT !.path = AdminPath])
      /\ UNCHANGED <<polls, votes, jar, form, nextTok, nextPollId, cache>>

\* handleVote of SecurePollPage: the user of session s, logged in and shown
\* the voting view of a poll, picks one of the options shown and submits; the
\* token of the page is appended to a FormData that is not passed on, and
\* submitVote(poll.id, selectedOption) is called, in either copy of it
HandleVote(s) ==
  \E i \in Finished : \E op \in {"submitVote", "submitVoteV2"} :
    LET page == reqs[i] IN
      /\ page.op = "pollPage" /\ page.sess = s /\ page.result = Ok
      /\ form[s] = page.setCookie
      /\ ~page.rows[1].userVoted
      /\ SessionUser(s) # NoUser
      /\ \E x \in 0..(page.rows[1].options - 1) :
           /\ Len(reqs) < MaxReq + MaxViews
           /\ reqs' = Append(reqs, [NewRequest(s, op, NoToken, page.pollId, x, 0)
                                      EXCEPT !.path = PollPath(page.pollId)])
      /\ UNCHANGED <<polls, votes, jar, form, nextTok, nextPollId, cache>>

\* a page with a mutating form is rendered for session s: generateCsrfToken
\* sets the cookie and the token is embedded in the form
Render(s) ==
  /\ jar' = [jar EXCEPT ![s] = FreshToken(s)]
  /\ form' = [form EXCEPT ![s] = FreshToken(s)]
  /\ nextTok' = [nextTok EXCEPT ![s] = @ + 1]
  /\ UNCHANGED <<polls, votes, nextPollId, reqs, cache>>

\* PollsPage: the list of the polls of the user of session s is rendered,
\* with a token for its forms, and kept as the cached view of its path; it is
\* rendered when the cache holds no view of the path for the user
PollsPage(s) ==
  /\ \A c \in cache : ~(c.path = PollsPath /\ c.user = SessionUser(s))
  /\ jar' = [jar EXCEPT ![s] = FreshToken(s)]
  /\ form' = [form EXCEPT ![s] = FreshToken(s)]
  /\ nextTok' = [nextTok EXCEPT ![s] = @ + 1]
  /\ cache' = cache \cup {[path |-> PollsPath, user |-> SessionUser(s),
                            ids |-> {p.id : p \in PollsOf(SessionUser(s))}]}
  /\ UNCHANGED <<polls, votes, nextPollId, reqs>>

\* the user of session s loads a page anew when the page shown holds no
\* token or a token that is no longer the cookie's
Reload(s) ==
  /\ form[s] = NoToken \/ form[s] # jar[s]
  /\ Render(s)

\* the user of session s has submitted the form of the page shown and opens
\* a page with a mutating form again (list, detail, create or edit page)
Navigate(s) ==
  /\ \E i \in DOMAIN reqs : reqs[i].sess = s /\ reqs[i].csrf = form[s]
  /\ Render(s)

\* the browser drops the csrf_token cookie of session s, which a request has
\* been sent with: its max-age of one hour has run out, which can be at any
\* moment after it was set
Expire(s) ==
  /\ jar[s] # NoToken
  /\ \E i \in DOMAIN reqs : reqs[i].sess = s /\ reqs[i].stored = jar[s]
  /\ jar' = [jar EXCEPT ![s] = NoToken]
  /\ UNCHANGED <<polls, votes, form, nextTok, nextPollId, reqs, cache>>

\* the form of a page rendered earlier is submitted again: the request
\* carries the token of an earlier request and the cookie of the moment
SendAgain(S) ==
  \E s \in S : \E i \in DOMAIN reqs :
    /\ reqs[i].sess = s /\ reqs[i].csrf # NoToken
    /\ Send(s, reqs[i].op, reqs[i].csrf, reqs[i].pollId, reqs[i].idx, reqs[i].form)

----------------------------------------------------------------------------
(* The row store reports a failure for a statement: the branches           *)
(* "if (error) return { error: error.message }" of the actions.  Nothing   *)
(* is written and nothing is revalidated.                                  *)

Failed(r) == [r EXCEPT !.storeError = TRUE]

\* the insert of createPoll fails
CreatePollStoreError(i) ==
  LET r == reqs[i]
      tokErr == CsrfCheck(r.stored, r.csrf, ErrInvalidToken)
      r1 == AfterCheck(r, tokErr)
  IN /\ r.op = "createPoll" /\ r.pc = "start"
     /\ tokErr = Ok /\ InputError[r.form] = Ok /\ ~NotLoggedIn(User(r))
     /\ nextTok' = [nextTok EXCEPT ![r.sess] = @ + 1]
     /\ Done(i, Failed(r1), StoreMessage)
     /\ UNCHANGED <<polls, votes, form, nextPollId>>

\* the insert of submitVote fails
SubmitVoteStoreError(i) ==
  LET r == reqs[i]
  IN /\ r.op = "submitVote" /\ r.pc = "insert"
     /\ Done(i, Failed(r), StoreMessage)
     /\ UNCHANGED <<polls, votes, form, nextTok, nextPollId>>

\* the update of updatePoll or the delete of deletePoll fails
WriteStoreError(i) ==
  LET r == reqs[i]
  IN /\ r.op \in {"updatePoll", "deletePoll"} /\ r.pc = "write"
     /\ Done(i, Failed(r), StoreMessage)
     /\ UNCHANGED <<polls, votes, form, nextTok, nextPollId>>

\* the delete of adminDeletePoll fails
AdminDeletePollStoreError(i) ==
  LET r == reqs[i]
      tokErr == CsrfCheck(r.stored, r.csrf, ErrInvalidToken)
      r1 == AfterCheck(r, tokErr)
  IN /\ r.op = "adminDeletePoll" /\ r.pc = "start"
     /\ CheckAdminAccess(User(r)) = Ok /\ tokErr = Ok
     /\ nextTok' = [nextTok EXCEPT ![r.sess] = @ + 1]
     /\ Done(i, Failed(r1), StoreMessage)
     /\ UNCHANGED <<polls, votes, form, nextPollId>>

\* the select of getUserPolls fails
GetUserPollsStoreError(i) ==
  LET r == reqs[i]
  IN /\ r.op = "getUserPolls" /\ r.pc = "start"
     /\ ~NotLoggedIn(User(r))
     /\ Done(i, Failed(r), StoreMessage)
     /\ UNCHANGED <<polls, votes, form, nextTok, nextPollId>>

----------------------------------------------------------------------------
(* The second copies of the actions: submitVote, deletePoll and updatePoll  *)
(* of poll-actions.ts and adminDeletePoll of admin-actions.ts as they are   *)
(* without the token check.                                                *)

\* submitVote(pollId, optionIndex) up to its read of the user's votes
SubmitVoteV2Check(i) ==
  LET r == reqs[i]
      existing == VoteRows(r.pollId, User(r))
      r2 == [r EXCEPT !.seenVotes = Cardinality(existing)]
  IN /\ r.op = "submitVoteV2" /\ r.pc = "start"
     /\ IF NotLoggedIn(User(r)) THEN Done(i, r, ErrLoginVote)
        ELSE IF HasVoted(existing) THEN Done(i, r2, ErrAlreadyVoted)
        ELSE Goto(i, r2, "readPoll")
     /\ UNCHANGED <<polls, votes, form, nextTok, nextPollId>>

SubmitVoteV2ReadPoll(i) ==
  LET r == reqs[i]
      rows == PollRows(r.pollId)
      len == Len((CHOOSE p \in rows : TRUE).options)
  IN /\ r.op = "submitVoteV2" /\ r.pc = "readPoll"
     /\ IF rows = {} THEN Done(i, r, ErrStoreNoRow)
        ELSE IF BadIndex(r.idx, len) THEN Done(i, [r EXCEPT !.seenLen = len], ErrInvalidOption)
        ELSE Goto(i, [r EXCEPT !.seenLen = len], "insert")
     /\ UNCHANGED <<polls, votes, form, nextTok, nextPollId>>

SubmitVoteV2Insert(i) ==
  LET r == reqs[i]
  IN /\ r.op = "submitVoteV2" /\ r.pc = "insert"
     /\ votes' = InsertVote(r.pollId, User(r), r.idx)
     /\ Done(i, [r EXCEPT !.wrote = 1], Ok)
     /\ UNCHANGED <<polls, form, nextTok, nextPollId>>

\* deletePoll(id) up to its ownership check
DeletePollV2Check(i) ==
  LET r == reqs[i]
      rows == PollRows(r.pollId)
      owner == (CHOOSE p \in rows : TRUE).user_id
  IN /\ r.op = "deletePollV2" /\ r.pc = "start"
     /\ IF NotLoggedIn(User(r)) THEN Done(i, r, ErrLoginDelete)
        ELSE IF rows = {} THEN Done(i, r, ErrStoreNoRow)
        ELSE IF NotOwner(owner, User(r))
          THEN Done(i, [r EXCEPT !.seenOwner = owner], ErrDeleteOwn)
        ELSE Goto(i, [r EXCEPT !.seenOwner = owner], "write")
     /\ UNCHANGED <<polls, votes, form, nextTok, nextPollId>>

\* the row is deleted, then the call of revalidatePath throws
DeletePollV2Write(i) ==
  LET r == reqs[i]
  IN /\ r.op = "deletePollV2" /\ r.pc = "write"
     /\ polls' = DeleteById(r.pollId)
     /\ Done(i, [r EXCEPT !.wrote = Cardinality(PollRows(r.pollId))], ThrowNotAFunction)
     /\ UNCHANGED <<votes, form, nextTok, nextPollId>>

\* updatePoll(pollId, formData) up to its ownership check
UpdatePollV2Check(i) ==
  LET r == reqs[i]
      inErr == InputError[r.form]
      rows == PollRows(r.pollId)
      owner == (CHOOSE p \in rows : TRUE).user_id
  IN /\ r.op = "updatePollV2" /\ r.pc = "start"
     /\ IF inErr # Ok THEN Done(i, r, inErr)
        ELSE IF NotLoggedIn(User(r)) THEN Done(i, r, ErrLoginUpdate)
        ELSE IF rows = {} THEN Done(i, r, ErrStoreNoRow)
        ELSE IF NotOwner(owner, User(r))
          THEN Done(i, [r EXCEPT !.seenOwner = owner], ErrUpdateOwn)
        ELSE Goto(i, [r EXCEPT !.seenOwner = owner], "write")
     /\ UNCHANGED <<polls, votes, form, nextTok, nextPollId>>

UpdatePollV2Write(i) ==
  LET r == reqs[i]
      hit == {p \in PollRows(r.pollId) : p.user_id = User(r)}
  IN /\ r.op = "updatePollV2" /\ r.pc = "write"
     /\ polls' = UpdateWhere(r.pollId, User(r), Sanitized[r.form].question,
                             Sanitized[r.form].options)
     /\ Done(i, [r EXCEPT !.wrote = Cardinality(hit)], Ok)
     /\ UNCHANGED <<votes, form, nextTok, nextPollId>>

\* adminDeletePoll(pollId): the gate, then the delete
AdminDeletePollV2(i) ==
  LET r == reqs[i]
      gate == CheckAdminAccess(User(r))
  IN /\ r.op = "adminDeletePollV2" /\ r.pc = "start"
     /\ IF gate # Ok THEN Done(i, r, gate) /\ polls' = polls
        ELSE /\ polls' = DeleteById(r.pollId)
             /\ Done(i, [r EXCEPT !.wrote = Cardinality(PollRows(r.pollId))], Ok)
     /\ UNCHANGED <<votes, form, nextTok, nextPollId>>

----------------------------------------------------------------------------
(* The middleware.  A path is a text; a response has a kind ("next": the   *)
(* request goes on to its route, "redirect"), a status and headers.        *)

LoginPath == <<"/", "l", "o", "g", "i", "n">>
AuthPath == <<"/", "a", "u", "t", "h">>
\* the paths the matcher of config leaves out start with one of these
\* after the first "/", or end with an image suffix
MatcherPrefixes == {<<"_", "n", "e", "x", "t", "/", "s", "t", "a", "t", "i", "c">>, <<"_", "n", "e", "x", "t", "/", "i", "m", "a", "g", "e">>, <<"f", "a", "v", "i", "c", "o", "n", ".", "i", "c", "o">>, <<"l", "o", "g", "i", "n">>, <<"r", "e", "g", "i", "s", "t", "e", "r">>}
MatcherSuffixes == {<<".", "s", "v", "g">>, <<".", "p", "n", "g">>, <<".", "j", "p", "g">>, <<".", "j", "p", "e", "g">>, <<".", "g", "i", "f">>, <<".", "w", "e", "b", "p">>}

\* String.prototype.startsWith, and the end of a text
StartsWith(t, pat) == Len(t) >= Len(pat) /\ SubSeq(t, 1, Len(pat)) = pat
EndsWith(t, pat) == Len(t) >= Len(pat) /\ SubSeq(t, Len(t) - Len(pat) + 1, Len(t)) = pat

\* config.matcher: the middleware runs for the path
Matcher(path) ==
  /\ path # <<>> /\ Head(path) = "/"
  /\ \A pre \in MatcherPrefixes : ~StartsWith(Tail(path), pre)
  /\ \A suf \in MatcherSuffixes : ~EndsWith(path, suf)

\* the paths requested in the model
Paths == {<<"/">>,
          <<"/", "p", "o", "l", "l", "s">>,
          <<"/", "p", "o", "l", "l", "s", "/", "1">>,
          <<"/", "c", "r", "e", "a", "t", "e">>,
          <<"/", "a", "d", "m", "i", "n">>,
          <<"/", "l", "o", "g", "i", "n">>,
          <<"/", "r", "e", "g", "i", "s", "t", "e", "r">>,
          <<"/", "a", "u", "t", "h", "/", "c", "a", "l", "l", "b", "a", "c", "k">>,
          <<"/", "l", "o", "g", "o", ".", "p", "n", "g">>,
          <<"/", "f", "a", "v", "i", "c", "o", "n", ".", "i", "c", "o">>}

\* the headers the middleware sets
SecureHeaders == {"X-Frame-Options", "X-Content-Type-Options", "Referrer-Policy",
                  "Permissions-Policy", "Content-Security-Policy"}

\* NextResponse.next(): the request goes on; status 200
ResponseNext(headers) == [kind |-> "next", status |-> 200, headers |-> headers]
\* NextResponse.redirect(url): status 307 and a Location header
ResponseRedirect(location) ==
  [kind |-> "redirect", status |-> 307, headers |-> {<<"Location", location>>}]

\* updateSession: the redirect to /login for a request without a user on a
\* path outside /login and /auth, the pass-through response otherwise
UpdateSession(user, path) ==
  IF user = NoUser /\ ~StartsWith(path, LoginPath) /\ ~StartsWith(path, AuthPath)
    THEN ResponseRedirect(LoginPath)
    ELSE ResponseNext({})

\* middleware: the headers of updateSession's response and the security
\* headers, on a new NextResponse.next
Middleware(user, path) ==
  LET response == UpdateSession(user, path)
      secureHeaders == response.headers \cup {<<h, "set">> : h \in SecureHeaders}
  IN ResponseNext(secureHeaders)

\* a page request: through the middleware when the matcher selects its path
Page(i) ==
  LET r == reqs[i]
      response == Middleware(User(r), r.path)
  IN /\ r.op = "page" /\ r.pc = "start"
     /\ IF Matcher(r.path) THEN Done(i, [r EXCEPT !.rows = <<response>>], response.kind)
        ELSE Done(i, r, "next")
     /\ UNCHANGED <<polls, votes, form, nextTok, nextPollId>>

----------------------------------------------------------------------------

Init ==
  /\ polls = {SeedPoll}
  /\ votes = <<>>
  /\ jar = [s \in Sessions |-> NoToken]
  /\ form = [s \in Sessions |-> NoToken]
  /\ nextTok = [s \in Sessions |-> 1]
  /\ nextPollId = 2
  /\ reqs = <<>>
  /\ cache = {}

\* the mutating operations: both deletes of the seed poll, each called by
\* the owner alice, the admin bob and an anonymous caller, an update of it by
\* alice and by bob, a vote of alice and a createPoll of bob; every request
\* submits the form of the page its browser shows
Next ==
  \/ \E s \in Sessions : Reload(s)
  \/ SendCreatePoll({"sb"}, {}, {1})
  \/ SendUpdatePoll({"sa", "sb"}, {}, {1}, {1})
  \/ SendDeletePoll(Sessions, {}, {1})
  \/ SendAdminDeletePoll(Sessions, {}, {1})
  \/ SendSubmitVote({"sa"}, {}, {1}, {0})
  \/ \E i \in DOMAIN reqs : CreatePoll(i)
  \/ \E i \in DOMAIN reqs : SubmitVoteCheck(i)
  \/ \E i \in DOMAIN reqs : SubmitVoteReadPoll(i)
  \/ \E i \in DOMAIN reqs : SubmitVoteInsert(i)
  \/ \E i \in DOMAIN reqs : DeletePollCheck(i)
  \/ \E i \in DOMAIN reqs : DeletePollWrite(i)
  \/ \E i \in DOMAIN reqs : UpdatePollCheck(i)
  \/ \E i \in DOMAIN reqs : UpdatePollWrite(i)
  \/ \E i \in DOMAIN reqs : AdminDeletePoll(i)

Spec == Init /\ [][Next]_vars

\* the vote service: votes of alice and of an anonymous caller on the seed
\* poll, with indices below, in and above its range, and a vote of alice on
\* an absent poll
VoteSessions == {"sa", "sn"}
NextVote ==
  \/ \E s \in VoteSessions : Reload(s)
  \/ SendSubmitVote(VoteSessions, {}, {1}, {-1, 0, 3})
  \/ SendSubmitVote({"sa"}, {}, PollIds \ {1}, {0})
  \/ \E i \in DOMAIN reqs : SubmitVoteCheck(i)
  \/ \E i \in DOMAIN reqs : SubmitVoteReadPoll(i)
  \/ \E i \in DOMAIN reqs : SubmitVoteInsert(i)

SpecVote == Init /\ [][NextVote]_vars

\* the token guard called on its own, with the token of a page of the
\* caller's session or of the other session
TokenSessions == {"sa", "sb"}
NextToken ==
  \/ \E s \in TokenSessions : Reload(s)
  \/ SendValidateCsrfToken(TokenSessions, TokenSessions)
  \/ \E i \in DOMAIN reqs : ValidateCsrfTokenCall(i)

SpecToken == Init /\ [][NextToken]_vars

\* pages are rendered one after the other in alice's session while requests
\* with the token of an earlier page are sent or still in flight, and the
\* cookie runs out
NextRender ==
  \/ Reload("sa")
  \/ Navigate("sa")
  \/ Expire("sa")
  \/ SendValidateCsrfToken({"sa"}, {})
  \/ SendCreatePoll({"sa"}, {}, {2})
  \/ SendAgain({"sa"})
  \/ \E i \in DOMAIN reqs : ValidateCsrfTokenCall(i)
  \/ \E i \in DOMAIN reqs : CreatePoll(i)

SpecRender == Init /\ [][NextRender]_vars

\* the page of a poll is shown to alice, to bob or to an anonymous visitor,
\* who votes through it; bob may have voted before on a page of his own
NextVotePage ==
  \/ InFlight = {} /\ Reload("sb")
  \/ InFlight = {} /\ SendSubmitVote({"sb"}, {}, {1}, {0})
  \/ InFlight = {} /\ SendPollPage(Sessions, PollIds)
  \/ \E i \in DOMAIN reqs : PollPage(i)
  \/ \E s \in Sessions : InFlight = {} /\ HandleVote(s)
  \/ \E i \in DOMAIN reqs : SubmitVoteCheck(i)
  \/ \E i \in DOMAIN reqs : SubmitVoteReadPoll(i)
  \/ \E i \in DOMAIN reqs : SubmitVoteInsert(i)
  \/ \E i \in DOMAIN reqs : SubmitVoteV2Check(i)
  \/ \E i \in DOMAIN reqs : SubmitVoteV2ReadPoll(i)
  \/ \E i \in DOMAIN reqs : SubmitVoteV2Insert(i)

SpecVotePage == Init /\ [][NextVotePage]_vars

\* the admin page is requested by alice, by the admin bob and by an anonymous
\* visitor; who is shown it submits the "Delete Poll" form of a poll listed;
\* bob may have created a poll before
NextAdminPage ==
  \/ Reload("sb")
  \/ SendCreatePoll({"sb"}, {}, {1})
  \/ SendGetAdminPolls(Sessions)
  \/ \E s \in Sessions : AdminPageDelete(s)
  \/ \E i \in DOMAIN reqs : CreatePoll(i)
  \/ \E i \in DOMAIN reqs : GetAdminPolls(i)
  \/ \E i \in DOMAIN reqs : AdminDeletePoll(i)
  \/ \E i \in DOMAIN reqs : AdminDeletePollV2(i)

SpecAdminPage == Init /\ [][NextAdminPage]_vars

\* the edit page of the seed poll of alice, of a poll of bob and of an
\* absent poll is requested by alice, by bob and by an anonymous visitor,
\* each with or without a token from an earlier page
NextEditPage ==
  \/ \E s \in Sessions : Reload(s)
  \/ SendCreatePoll({"sb"}, {}, {1})
  \/ SendEditPage(Sessions, PollIds)
  \/ \E i \in DOMAIN reqs : CreatePoll(i)
  \/ \E i \in DOMAIN reqs : EditPollPage(i)

SpecEditPage == Init /\ [][NextEditPage]_vars

\* failures behind the token check and their retries: alice creates a poll
\* from a valid and from an invalid form and an anonymous visitor from a
\* valid one, bob deletes alice's seed poll and alice an absent poll, alice
\* votes, the admin bob deletes the seed poll, any statement may fail in the
\* store, and every request may be sent again as it was
NextRetry ==
  \/ \E s \in Sessions : Reload(s)
  \/ SendCreatePoll({"sa"}, {}, {1, 3})
  \/ SendCreatePoll({"sn"}, {}, {1})
  \/ SendDeletePoll({"sb"}, {}, {1})
  \/ InFlight = {} /\ SendDeletePoll({"sa"}, {}, PollIds \ {1})
  \/ InFlight = {} /\ SendSubmitVote({"sa"}, {}, {1}, {0})
  \/ SendAdminDeletePoll({"sb"}, {}, {1})
  \/ SendAgain(Sessions)
  \/ \E i \in DOMAIN reqs : CreatePoll(i)
  \/ \E i \in DOMAIN reqs : DeletePollCheck(i)
  \/ \E i \in DOMAIN reqs : DeletePollWrite(i)
  \/ \E i \in DOMAIN reqs : SubmitVoteCheck(i)
  \/ \E i \in DOMAIN reqs : SubmitVoteReadPoll(i)
  \/ \E i \in DOMAIN reqs : SubmitVoteInsert(i)
  \/ \E i \in DOMAIN reqs : AdminDeletePoll(i)
  \/ \E i \in DOMAIN reqs : CreatePollStoreError(i)
  \/ \E i \in DOMAIN reqs : SubmitVoteStoreError(i)
  \/ \E i \in DOMAIN reqs : WriteStoreError(i)
  \/ \E i \in DOMAIN reqs : AdminDeletePollStoreError(i)

SpecRetry == Init /\ [][NextRetry]_vars

\* the reads and the token guard: alice, bob and an anonymous caller read a
\* poll by id, list their polls and list all polls, alice and bob call the
\* token guard with the token of a page of either of them, alice votes and
\* bob creates a poll
NextRead ==
  \/ \E s \in {"sa", "sb"} : Reload(s)
  \/ InFlight = {} /\ SendSubmitVote({"sa"}, {}, {1}, {0})
  \/ InFlight = {} /\ SendCreatePoll({"sb"}, {}, {1})
  \/ SendValidateCsrfToken({"sa", "sb"}, {"sa", "sb"})
  \/ SendGetPollById(Sessions, PollIds)
  \/ InFlight = {} /\ SendGetUserPolls(Sessions)
  \/ InFlight = {} /\ SendGetAdminPolls(Sessions)
  \/ \E i \in DOMAIN reqs : SubmitVoteCheck(i)
  \/ \E i \in DOMAIN reqs : SubmitVoteReadPoll(i)
  \/ \E i \in DOMAIN reqs : SubmitVoteInsert(i)
  \/ \E i \in DOMAIN reqs : CreatePoll(i)
  \/ \E i \in DOMAIN reqs : ValidateCsrfTokenCall(i)
  \/ \E i \in DOMAIN reqs : GetPollByIdCall(i)
  \/ \E i \in DOMAIN reqs : GetUserPolls(i)
  \/ \E i \in DOMAIN reqs : GetAdminPolls(i)

SpecRead == Init /\ [][NextRead]_vars

\* the admin gate and the token: alice, the admin bob and an anonymous
\* visitor call adminDeletePoll on the seed poll with the token of their
\* page, and alice and the visitor go on to use that token, alice to delete
\* her poll and both to call the token guard
NextGate ==
  \/ \E s \in Sessions : Reload(s)
  \/ SendAdminDeletePoll(Sessions, {}, {1})
  \/ SendDeletePoll({"sa"}, {}, {1})
  \/ SendValidateCsrfToken({"sa", "sn"}, {})
  \/ \E i \in DOMAIN reqs : AdminDeletePoll(i)
  \/ \E i \in DOMAIN reqs : DeletePollCheck(i)
  \/ \E i \in DOMAIN reqs : DeletePollWrite(i)
  \/ \E i \in DOMAIN reqs : ValidateCsrfTokenCall(i)

SpecGate == Init /\ [][NextGate]_vars

\* the input checks: alice creates polls and updates the seed poll with each
\* of the forms, one request after the other
InputSessions == {"sa"}
NextInput ==
  \/ \E s \in InputSessions : Reload(s)
  \/ InFlight = {} /\ SendCreatePoll(InputSessions, {}, FormIds)
  \/ InFlight = {} /\ SendUpdatePoll(InputSessions, {}, {1}, FormIds)
  \/ \E i \in DOMAIN reqs : CreatePoll(i)
  \/ \E i \in DOMAIN reqs : UpdatePollCheck(i)
  \/ \E i \in DOMAIN reqs : UpdatePollWrite(i)

SpecInput == Init /\ [][NextInput]_vars

\* votes on an edited poll: alice and bob vote for the first or the third
\* option of the seed poll while alice, its owner, updates it to the two
\* options of the first form
EditSessions == {"sa", "sb"}
NextEdit ==
  \/ \E s \in EditSessions : Reload(s)
  \/ SendSubmitVote(EditSessions, {}, {1}, {0, 2})
  \/ SendUpdatePoll({"sa"}, {}, {1}, {1})
  \/ \E i \in DOMAIN reqs : SubmitVoteCheck(i)
  \/ \E i \in DOMAIN reqs : SubmitVoteReadPoll(i)
  \/ \E i \in DOMAIN reqs : SubmitVoteInsert(i)
  \/ \E i \in DOMAIN reqs : UpdatePollCheck(i)
  \/ \E i \in DOMAIN reqs : UpdatePollWrite(i)

SpecEdit == Init /\ [][NextEdit]_vars

\* the admin panel: the admin bob creates a poll; the owner alice, bob and
\* an anonymous caller list all polls and call adminDeletePoll on the seed
\* poll of alice; bob calls it on his own poll as well; bob and the
\* anonymous caller call the formData variant of helpers.ts
NextAdmin ==
  \/ \E s \in Sessions : Reload(s)
  \/ SendCreatePoll({"sb"}, {}, {1})
  \/ SendAdminDeletePoll(Sessions, {}, {1})
  \/ SendAdminDeletePoll({"sb"}, {}, PollIds \ {1})
  \/ SendAdminDeletePollForm({"sb", "sn"}, {}, {1})
  \/ SendAdminDeletePollForm({"sb"}, {}, {NoPollId})
  \/ SendGetAdminPolls(Sessions)
  \/ \E i \in DOMAIN reqs : CreatePoll(i)
  \/ \E i \in DOMAIN reqs : AdminDeletePoll(i)
  \/ \E i \in DOMAIN reqs : AdminDeletePollForm(i)
  \/ \E i \in DOMAIN reqs : GetAdminPolls(i)

SpecAdmin == Init /\ [][NextAdmin]_vars

\* the dashboard: alice and an anonymous caller list their polls while
\* alice and bob create polls and bob updates and deletes polls
ListSessions == {"sa", "sn"}
NextList ==
  \/ \E s \in {"sa", "sb"} : Reload(s)
  \/ SendCreatePoll({"sa", "sb"}, {}, {1})
  \/ SendUpdatePoll({"sb"}, {}, PollIds, {1})
  \/ SendDeletePoll({"sb"}, {}, PollIds)
  \/ SendGetUserPolls(ListSessions)
  \/ \E i \in DOMAIN reqs : CreatePoll(i)
  \/ \E i \in DOMAIN reqs : UpdatePollCheck(i)
  \/ \E i \in DOMAIN reqs : UpdatePollWrite(i)
  \/ \E i \in DOMAIN reqs : DeletePollCheck(i)
  \/ \E i \in DOMAIN reqs : DeletePollWrite(i)
  \/ \E i \in DOMAIN reqs : GetUserPolls(i)

SpecList == Init /\ [][NextList]_vars

\* ownership: bob updates and deletes alice's seed poll with payloads that
\* name nobody or alice as user_id; alice deletes her poll and updates her
\* poll and a poll of bob
NextOwner ==
  \/ \E s \in {"sa", "sb"} : Reload(s)
  \/ SendCreatePoll({"sb"}, {}, {1})
  \/ SendWithUserId({"sb"}, {"updatePoll"}, {1}, {1, 3}, {NoUser, "alice"})
  \/ SendWithUserId({"sa", "sb"}, {"deletePoll"}, {1}, {0}, {NoUser, "alice"})
  \/ SendWithUserId({"sa"}, {"updatePoll"}, PollIds, {1}, {NoUser, "bob"})
  \/ \E i \in DOMAIN reqs : CreatePoll(i)
  \/ \E i \in DOMAIN reqs : UpdatePollCheck(i)
  \/ \E i \in DOMAIN reqs : UpdatePollWrite(i)
  \/ \E i \in DOMAIN reqs : DeletePollCheck(i)
  \/ \E i \in DOMAIN reqs : DeletePollWrite(i)

SpecOwner == Init /\ [][NextOwner]_vars

\* the life of a poll: alice votes on the seed poll, updates it and deletes
\* it while the admin bob deletes it and creates a poll
LifeSessions == {"sa", "sb"}
NextLife ==
  \/ \E s \in LifeSessions : Reload(s)
  \/ SendCreatePoll({"sb"}, {}, {1})
  \/ SendUpdatePoll({"sa"}, {}, {1}, {1})
  \/ SendDeletePoll({"sa"}, {}, {1})
  \/ SendAdminDeletePoll({"sb"}, {}, {1})
  \/ SendSubmitVote({"sa"}, {}, {1}, {0, 2})
  \/ \E i \in DOMAIN reqs : CreatePoll(i)
  \/ \E i \in DOMAIN reqs : SubmitVoteCheck(i)
  \/ \E i \in DOMAIN reqs : SubmitVoteReadPoll(i)
  \/ \E i \in DOMAIN reqs : SubmitVoteInsert(i)
  \/ \E i \in DOMAIN reqs : DeletePollCheck(i)
  \/ \E i \in DOMAIN reqs : DeletePollWrite(i)
  \/ \E i \in DOMAIN reqs : UpdatePollCheck(i)
  \/ \E i \in DOMAIN reqs : UpdatePollWrite(i)
  \/ \E i \in DOMAIN reqs : AdminDeletePoll(i)

SpecLife == Init /\ [][NextLife]_vars

\* the copies of the actions without a token parameter, called on the seed
\* poll by its owner alice and the admin bob, next to createPoll
V2Ops == {"submitVoteV2", "deletePollV2", "updatePollV2"}
NextV2 ==
  \/ \E s \in {"sb"} : Reload(s)
  \/ SendCreatePoll({"sb"}, {}, {1})
  \/ SendV2({"sa", "sb"}, V2Ops, {1}, {0}, {1})
  \/ SendV2({"sa", "sb"}, {"adminDeletePollV2"}, {1}, {0}, {1})
  \/ \E i \in DOMAIN reqs : CreatePoll(i)
  \/ \E i \in DOMAIN reqs : SubmitVoteV2Check(i)
  \/ \E i \in DOMAIN reqs : SubmitVoteV2ReadPoll(i)
  \/ \E i \in DOMAIN reqs : SubmitVoteV2Insert(i)
  \/ \E i \in DOMAIN reqs : DeletePollV2Check(i)
  \/ \E i \in DOMAIN reqs : DeletePollV2Write(i)
  \/ \E i \in DOMAIN reqs : UpdatePollV2Check(i)
  \/ \E i \in DOMAIN reqs : UpdatePollV2Write(i)
  \/ \E i \in DOMAIN reqs : AdminDeletePollV2(i)

SpecV2 == Init /\ [][NextV2]_vars

\* a failing row store: alice creates a poll, votes on the seed poll,
\* updates and deletes it and lists her polls and the admin bob deletes the
\* seed poll, one request after the other, and each statement may fail
NextStore ==
  \/ \E s \in LifeSessions : Reload(s)
  \/ InFlight = {} /\ SendCreatePoll({"sa"}, {}, {1})
  \/ InFlight = {} /\ SendUpdatePoll({"sa"}, {}, {1}, {1})
  \/ InFlight = {} /\ SendDeletePoll({"sa"}, {}, {1})
  \/ InFlight = {} /\ SendAdminDeletePoll({"sb"}, {}, {1})
  \/ InFlight = {} /\ SendSubmitVote({"sa"}, {}, {1}, {0})
  \/ InFlight = {} /\ SendGetUserPolls({"sa"})
  \/ \E i \in DOMAIN reqs : CreatePoll(i)
  \/ \E i \in DOMAIN reqs : SubmitVoteCheck(i)
  \/ \E i \in DOMAIN reqs : SubmitVoteReadPoll(i)
  \/ \E i \in DOMAIN reqs : SubmitVoteInsert(i)
  \/ \E i \in DOMAIN reqs : DeletePollCheck(i)
  \/ \E i \in DOMAIN reqs : DeletePollWrite(i)
  \/ \E i \in DOMAIN reqs : UpdatePollCheck(i)
  \/ \E i \in DOMAIN reqs : UpdatePollWrite(i)
  \/ \E i \in DOMAIN reqs : AdminDeletePoll(i)
  \/ \E i \in DOMAIN reqs : GetUserPolls(i)
  \/ \E i \in DOMAIN reqs : CreatePollStoreError(i)
  \/ \E i \in DOMAIN reqs : SubmitVoteStoreError(i)
  \/ \E i \in DOMAIN reqs : WriteStoreError(i)
  \/ \E i \in DOMAIN reqs : AdminDeletePollStoreError(i)
  \/ \E i \in DOMAIN reqs : GetUserPollsStoreError(i)

SpecStore == Init /\ [][NextStore]_vars

\* cached lists: the list of alice's polls is rendered and kept while alice
\* creates a poll, votes on the seed poll, updates and deletes it and the
\* admin bob deletes it, one request after the other
NextCache ==
  \/ \E s \in LifeSessions : Reload(s)
  \/ InFlight = {} /\ PollsPage("sa")
  \/ InFlight = {} /\ SendCreatePoll({"sa"}, {}, {1})
  \/ InFlight = {} /\ SendUpdatePoll({"sa"}, {}, {1}, {1})
  \/ InFlight = {} /\ SendDeletePoll({"sa"}, {}, {1})
  \/ InFlight = {} /\ SendAdminDeletePoll({"sb"}, {}, {1})
  \/ InFlight = {} /\ SendSubmitVote({"sa"}, {}, {1}, {0})
  \/ \E i \in DOMAIN reqs : CreatePoll(i)
  \/ \E i \in DOMAIN reqs : SubmitVoteCheck(i)
  \/ \E i \in DOMAIN reqs : SubmitVoteReadPoll(i)
  \/ \E i \in DOMAIN reqs : SubmitVoteInsert(i)
  \/ \E i \in DOMAIN reqs : DeletePollCheck(i)
  \/ \E i \in DOMAIN reqs : DeletePollWrite(i)
  \/ \E i \in DOMAIN reqs : UpdatePollCheck(i)
  \/ \E i \in DOMAIN reqs : UpdatePollWrite(i)
  \/ \E i \in DOMAIN reqs : AdminDeletePoll(i)

SpecCache == Init /\ [][NextCache]_vars

\* the results of an edited poll: the requests of the edit scenario, and
\* alice looks at the page of the seed poll when no request is under way
NextResults ==
  \/ NextEdit
  \/ InFlight = {} /\ SendPollPage({"sa"}, {1})
  \/ \E i \in DOMAIN reqs : PollPage(i)

SpecResults == Init /\ [][NextResults]_vars

\* page requests of alice, of bob and of an anonymous visitor
NextPages ==
  \/ SendPage(Sessions, Paths)
  \/ \E i \in DOMAIN reqs : Page(i)

SpecPages == Init /\ [][NextPages]_vars

----------------------------------------------------------------------------
(* Properties.                                                             *)

MutatingOps == {"createPoll", "updatePoll", "deletePoll", "submitVote", "adminDeletePoll"}

\* the supplied token is missing or differs from the stored one
TokenFails(r) == r.csrf = NoToken \/ r.csrf # r.stored

\* the request that takes the step
Acts(i) == i \in DOMAIN reqs /\ reqs'[i] # reqs[i]

\* C1 as stated: a mutating operation whose supplied token is missing or
\* differs from the stored token returns an error and has changed no row.
C1_TokenFailureReturnsError ==
  \A i \in Finished :
    LET r == reqs[i] IN
      (r.op \in MutatingOps /\ TokenFails(r)) =>
        (r.result \in TokenErrors /\ r.wrote = 0)

\* C1 amended: on a missing or differing token no operation changes a row and
\* none succeeds; each returns the security-token error, except
\* adminDeletePoll called by a caller who is not an admin, which ends in the
\* redirect of the admin gate before the token is looked at.
C1_TokenFailureChangesNothing ==
  \A i \in Finished :
    LET r == reqs[i] IN
      (r.op \in MutatingOps /\ TokenFails(r)) =>
        /\ r.wrote = 0
        /\ IF r.op = "adminDeletePoll" /\ ~(User(r) # NoUser /\ IsAdmin(User(r)))
             THEN r.result \in Redirects
             ELSE r.result \in TokenErrors

\* the owner's deletePoll carries the token of a page whose token has been
\* used up: it gets the token error and the seed poll is still there
C1_Witness ==
  /\ SeedPoll \in polls
  /\ \E i \in Finished :
       /\ reqs[i].op = "deletePoll" /\ reqs[i].sess = "sa" /\ TokenFails(reqs[i])
       /\ reqs[i].csrf # NoToken /\ reqs[i].result = ErrInvalidToken

\* C2: a poll row's question or options change only in a step of an
\* updatePoll of the row's owner, and the row is removed only in a step of a
\* deletePoll of its owner or of an adminDeletePoll of an admin; the row's
\* id, owner and creation time never change.
C2_OnlyOwnerOrAdminChangesPoll ==
  [][\A p \in polls :
       LET now == {q \in polls' : q.id = p.id} IN
         /\ now = {} =>
              \E i \in DOMAIN reqs :
                /\ Acts(i)
                /\ \/ reqs[i].op = "deletePoll" /\ User(reqs[i]) = p.user_id
                   \/ reqs[i].op = "adminDeletePoll" /\ IsAdmin(User(reqs[i]))
         /\ (now # {} /\ p \notin polls') =>
              /\ \E i \in DOMAIN reqs :
                   Acts(i) /\ reqs[i].op = "updatePoll" /\ User(reqs[i]) = p.user_id
              /\ \A q \in now : q.user_id = p.user_id /\ q.created_at = p.created_at
    ]_vars

\* the seed poll has been edited by alice, and bob's deletePoll and an
\* anonymous adminDeletePoll on it have ended without removing it
C2_Witness ==
  /\ \E p \in polls : p.id = 1 /\ p.question # SeedPoll.question
  /\ \E i \in Finished :
       reqs[i].op = "updatePoll" /\ reqs[i].sess = "sa" /\ reqs[i].result = Ok
  /\ \E i \in Finished :
       reqs[i].op = "deletePoll" /\ reqs[i].sess = "sb" /\ reqs[i].result = ErrDeleteOwn

\* C3 as stated: the votes table holds at most one row per poll and user.
C3_OneVotePerPollAndUser ==
  \A i, j \in DOMAIN votes :
    (votes[i].poll_id = votes[j].poll_id /\ votes[i].user_id = votes[j].user_id) => i = j

\* the earlier calls of submitVote of the same user on the same poll that
\* have returned success
VotedBefore(r) ==
  {i \in Finished : /\ reqs[i].op = "submitVote" /\ reqs[i].pollId = r.pollId
                    /\ User(reqs[i]) = User(r) /\ reqs[i].result = Ok}

\* C4, the first call: a vote with a valid token by an authenticated user
\* who has no vote on the poll, for an existing poll and an index in its
\* range, succeeds and inserts one row.
C4_FirstVote ==
  \A i \in Finished :
    LET r == reqs[i] IN
      (/\ r.op = "submitVote" /\ ~TokenFails(r) /\ User(r) # NoUser
       /\ r.seenVotes = 0 /\ r.seenLen >= 0 /\ r.idx \in 0..(r.seenLen - 1)) =>
        (r.result = Ok /\ r.wrote = 1)

\* C4, the second call: a vote with a valid token that starts its checks
\* after a vote of the same user on the same poll has returned success ends
\* with the already-voted error and inserts nothing.
C4_SecondVote ==
  \A j \in DOMAIN reqs :
    LET r == reqs[j] IN
      (/\ r.op = "submitVote" /\ r.pc = "start" /\ Acts(j)
       /\ ~TokenFails(r) /\ User(r) # NoUser /\ VotedBefore(r) # {}) =>
        /\ reqs'[j].pc = "done" /\ reqs'[j].result = ErrAlreadyVoted
        /\ reqs'[j].wrote = 0 /\ votes' = votes

\* C4: submitVote called twice in sequence by the same user for the same
\* poll, each time with a valid token and a valid index: the first call
\* succeeds and inserts one row, the second fails with the already-voted
\* error and inserts nothing.
C4_VoteTwiceInSequence == []C4_FirstVote /\ [][C4_SecondVote]_vars

\* alice has voted on the seed poll and her second vote was rejected
C4_Witness ==
  /\ Len(votes) = 1
  /\ \E i, j \in Finished :
       /\ reqs[i].op = "submitVote" /\ reqs[j].op = "submitVote"
       /\ reqs[i].sess = "sa" /\ reqs[j].sess = "sa"
       /\ reqs[i].pollId = 1 /\ reqs[j].pollId = 1
       /\ reqs[i].result = Ok /\ reqs[i].wrote = 1
       /\ ~TokenFails(reqs[j]) /\ reqs[j].idx = 0
       /\ reqs[j].result = ErrAlreadyVoted /\ reqs[j].wrote = 0

\* the tokens no call has generated after them in their session
Newest(s) == <<s, nextTok[s] - 1>>

\* the tokens of the requests other than i: carried, supplied or set
TokensOfOthers(i) ==
  UNION {{reqs[j].setCookie, reqs[j].csrf} : j \in DOMAIN reqs \ {i}}

\* C5: validateCsrfToken returns false when no token is stored, when the
\* candidate is empty or when it differs from the stored token, and then
\* sets no cookie; otherwise it returns true and has set the cookie to a
\* newly generated token.
C5_ValidateContract ==
  \A i \in DOMAIN reqs :
    LET r == reqs[i] IN
      r.valid # "none" =>
        IF r.stored = NoToken \/ r.csrf = NoToken \/ r.csrf # r.stored
          THEN /\ r.valid = "no" /\ r.setCookie = NoToken
               /\ r.op = "validateCsrfToken" => r.result = "false"
          ELSE /\ r.valid = "yes"
               /\ r.setCookie \notin {NoToken, r.stored} \cup TokensOfOthers(i)
               /\ r.op = "validateCsrfToken" => r.result = "true"

\* one call has passed and rotated the token, another was refused for a
\* token that differs from the stored one
C5_Witness ==
  \E i, j \in Finished :
    /\ reqs[i].valid = "yes" /\ reqs[i].result = "true"
    /\ jar[reqs[i].sess] = reqs[i].setCookie
    /\ reqs[j].valid = "no" /\ reqs[j].stored # NoToken /\ reqs[j].csrf # NoToken

\* C6 as stated: a token value passes validation at most once in a session.
C6_TokenAcceptedOnce ==
  \A i, j \in DOMAIN reqs :
    (/\ reqs[i].valid = "yes" /\ reqs[j].valid = "yes"
     /\ reqs[i].sess = reqs[j].sess /\ reqs[i].csrf = reqs[j].csrf) => i = j

\* C7 as stated: a token that can pass validation is the one issued last to
\* its session (a request that has still to validate passes only with it).
C7_OnlyNewestTokenLive ==
  \A i \in DOMAIN reqs :
    (reqs[i].pc = "start" /\ ValidateCsrfToken(reqs[i].stored, reqs[i].csrf)) =>
      reqs[i].csrf = Newest(reqs[i].sess)

\* C8 as stated: of two mutating requests of one session that are in flight
\* together and carry the same token, at most one passes the token check.
C8_ConcurrentSameTokenOnePasses ==
  \A i, j \in InFlight :
    (/\ reqs[i].op \in MutatingOps /\ reqs[j].op \in MutatingOps
     /\ reqs[i].sess = reqs[j].sess /\ reqs[i].csrf = reqs[j].csrf
     /\ reqs[i].valid = "yes" /\ reqs[j].valid = "yes") => i = j

\* the index is outside the range of the poll's options
OutOfRange(r) ==
  \E p \in polls : p.id = r.pollId /\ (r.idx < 0 \/ r.idx >= Len(p.options))

\* C9 as stated: a vote with an index out of range returns "Invalid option
\* selected", whoever calls, and inserts no row.
C9_BadIndexAlwaysInvalidOption ==
  \A i \in Finished :
    LET r == reqs[i] IN
      (r.op = "submitVote" /\ OutOfRange(r)) =>
        (r.result = ErrInvalidOption /\ r.wrote = 0)

\* C9 amended: a vote with an index out of range never inserts a row and
\* never succeeds; it returns "Invalid option selected" when the token check
\* passes, the caller is authenticated and has no vote on the poll, and
\* otherwise the error of the first of these checks that fails.
C9_BadIndexNeverInserts ==
  \A i \in Finished :
    LET r == reqs[i] IN
      (r.op = "submitVote" /\ OutOfRange(r)) =>
        /\ r.wrote = 0
        /\ r.result =
             IF TokenFails(r) THEN (IF r.csrf = NoToken THEN ErrMissingToken
                                    ELSE ErrInvalidTokenVote)
             ELSE IF User(r) = NoUser THEN ErrLoginVote
             ELSE IF r.seenVotes > 0 THEN ErrAlreadyVoted
             ELSE ErrInvalidOption

\* alice's vote with index 3 on the three options of the seed poll got
\* "Invalid option selected", an anonymous vote with index -1 and a valid
\* token got the must-be-logged-in error, and no row was inserted
C9_Witness ==
  /\ votes = <<>>
  /\ \E i \in Finished :
       /\ reqs[i].op = "submitVote" /\ reqs[i].idx = 3 /\ reqs[i].pollId = 1
       /\ reqs[i].seenLen = 3 /\ reqs[i].result = ErrInvalidOption
  /\ \E j \in Finished :
       /\ reqs[j].op = "submitVote" /\ reqs[j].sess = "sn" /\ reqs[j].idx = -1
       /\ reqs[j].pollId = 1 /\ ~TokenFails(reqs[j]) /\ reqs[j].result = ErrLoginVote

\* C10 as stated, first half: a vote without a resolved identity inserts no
\* row and returns the must-be-logged-in error.
C10_AnonymousGetsLoginError ==
  \A i \in Finished :
    LET r == reqs[i] IN
      (r.op = "submitVote" /\ User(r) = NoUser) =>
        (r.wrote = 0 /\ r.result = ErrLoginVote)

\* a vote without a resolved identity ends at the token check or at the
\* login check and inserts nothing
C10_AnonymousNeverInserts ==
  \A i \in DOMAIN reqs :
    LET r == reqs[i] IN
      (r.op = "submitVote" /\ User(r) = NoUser) =>
        /\ r.pc \in {"start", "done"} /\ r.wrote = 0
        /\ r.pc = "done" =>
             r.result = IF TokenFails(r)
                          THEN (IF r.csrf = NoToken THEN ErrMissingToken
                                ELSE ErrInvalidTokenVote)
                          ELSE ErrLoginVote

\* a vote row enters the table only in a step of a submitVote with a
\* resolved identity, and carries that identity and the request's poll id
C10_RowCarriesIdentity ==
  votes' # votes =>
    \E i \in DOMAIN reqs :
      /\ Acts(i) /\ reqs[i].op = "submitVote" /\ User(reqs[i]) # NoUser
      /\ votes' = Append(votes, [poll_id |-> reqs[i].pollId, user_id |-> User(reqs[i]),
                                 option_index |-> reqs[i].idx])

\* C10 amended: no vote row is ever inserted for a request without a
\* resolved identity (such a submitVote returns the must-be-logged-in error
\* once its token check has passed, and the token error before that), and
\* every vote row's user_id is the resolved identity of the request that
\* inserted it.
C10_VotesCarryResolvedIdentity ==
  []C10_AnonymousNeverInserts /\ [][C10_RowCarriesIdentity]_vars

\* an anonymous vote with a valid token was refused at the login check, and
\* alice's vote is in the table under her id
C10_Witness ==
  /\ \E i \in Finished :
       /\ reqs[i].op = "submitVote" /\ reqs[i].sess = "sn"
       /\ ~TokenFails(reqs[i]) /\ reqs[i].result = ErrLoginVote
  /\ \E i \in Finished :
       /\ reqs[i].op = "submitVote" /\ reqs[i].sess = "sa" /\ reqs[i].wrote = 1
       /\ votes = <<[poll_id |-> 1, user_id |-> "alice", option_index |-> reqs[i].idx]>>

\* the errors of the input checks
InputErrors ==
  {ErrInput, ErrQuestionLong, ErrOptionLong, ErrOptionChars, ErrQuestionChars}

\* the question and the options a request submits (empty option fields are
\* not part of the list)
Question(r) == Forms[r.form].question
Options(r) == FilterBoolean(Forms[r.form].options)

\* the requests that carry a form and have passed the token check
FormRequests ==
  {i \in DOMAIN reqs : reqs[i].op \in {"createPoll", "updatePoll"} /\ reqs[i].valid = "yes"}

\* the entity of a character
Entity(c) == CASE c = "<" -> LtEntity [] c = ">" -> GtEntity [] OTHER -> <<c>>

\* t with every "<" and ">" replaced by its entity, in one pass
RECURSIVE Escaped(_)
Escaped(t) ==
  IF Len(t) <= 1 THEN (IF t = <<>> THEN <<>> ELSE Entity(t[1]))
  ELSE LET h == Len(t) \div 2
       IN Escaped(SubSeq(t, 1, h)) \o Escaped(SubSeq(t, h + 1, Len(t)))

\* the input the claim C11 is about
ValidInput(q, opts) ==
  /\ q # <<>> /\ Len(q) <= 500 /\ Len(opts) >= 2
  /\ \A k \in 1..Len(opts) : Len(opts[k]) <= 200 /\ ~HasScript(opts[k])
  /\ ~HasScript(q)

\* the positions of t that hold no whitespace
Inked(t) == {k \in 1..Len(t) : t[k] \notin Whitespace}

\* t from its first to its last character that is no whitespace
Trimmed(t) ==
  IF Inked(t) = {} THEN <<>>
  ELSE SubSeq(t, CHOOSE a \in Inked(t) : \A k \in 1..(a - 1) : k \notin Inked(t),
                 CHOOSE b \in Inked(t) : \A k \in (b + 1)..Len(t) : k \notin Inked(t))

\* what the claim C11 expects to be stored for each form
Expected == [f \in FormIds |->
  [question |-> Trimmed(Escaped(Forms[f].question)),
   options |-> [k \in 1..Len(FilterBoolean(Forms[f].options)) |->
                  Trimmed(Escaped(FilterBoolean(Forms[f].options)[k]))]]]

\* the forms the claim C11 is about
ValidForms ==
  {f \in FormIds : ValidInput(Forms[f].question, FilterBoolean(Forms[f].options))}

NoAngle(t) == \A k \in 1..Len(t) : t[k] \notin {"<", ">"}

\* a request with valid input gets no error of the input checks
C11_ValidInputAccepted ==
  \A i \in FormRequests :
    (reqs[i].pc = "done" /\ reqs[i].form \in ValidForms) => reqs[i].result \notin InputErrors

\* no stored text contains "<" or ">"
C11_NoAngleStored ==
  \A p \in polls : NoAngle(p.question) /\ \A k \in 1..Len(p.options) : NoAngle(p.options[k])

\* a step of createPoll or updatePoll that writes a poll row writes the
\* escaped and trimmed question and options of its form
C11_WritesEscaped ==
  \A i \in FormRequests :
    Acts(i) =>
      \A p \in polls' \ polls :
        /\ reqs[i].form \in ValidForms
        /\ p.question = Expected[reqs[i].form].question
        /\ p.options = Expected[reqs[i].form].options

RuleOrderErrors(q, opts) ==
  IF q = <<>> \/ Len(opts) < 2 THEN {ErrInput}
  ELSE IF Len(q) > 500 THEN {ErrQuestionLong}
  ELSE IF \E k \in 1..Len(opts) : Len(opts[k]) > 200 THEN {ErrOptionLong}
  ELSE IF (\E k \in 1..Len(opts) : HasScript(opts[k])) \/ HasScript(q)
    THEN {ErrOptionChars, ErrQuestionChars}
  ELSE {}

\* the options that are too long or hold a script marker
Offending(opts) == {k \in 1..Len(opts) : Len(opts[k]) > 200 \/ HasScript(opts[k])}

\* the error when the options are taken one by one
OptionWiseError(q, opts) ==
  IF q = <<>> \/ Len(opts) < 2 THEN ErrInput
  ELSE IF Len(q) > 500 THEN ErrQuestionLong
  ELSE IF Offending(opts) # {}
    THEN LET k == CHOOSE k \in Offending(opts) : \A j \in Offending(opts) : k <= j
         IN IF Len(opts[k]) > 200 THEN ErrOptionLong ELSE ErrOptionChars
  ELSE IF HasScript(q) THEN ErrQuestionChars
  ELSE Ok

RuleOrder == [f \in FormIds |->
  RuleOrderErrors(Forms[f].question, FilterBoolean(Forms[f].options))]
OptionWise == [f \in FormIds |->
  OptionWiseError(Forms[f].question, FilterBoolean(Forms[f].options))]

\* C12 as stated: an input that violates rules gets the error of the first
\* violated rule in the order (1) question empty or fewer than two options,
\* (2) question too long, (3) some option too long, (4) a script marker in
\* an option or in the question.
C12_FirstRuleInOrder ==
  \A i \in FormRequests :
    (reqs[i].pc = "done" /\ RuleOrder[reqs[i].form] # {}) =>
      reqs[i].result \in RuleOrder[reqs[i].form]

\* C12 amended: the error is that of the first failing check in the order
\* (1) question empty or fewer than two options, (2) question too long,
\* (3) the options one by one in their order, each first for its length and
\* then for a script marker, (4) a script marker in the question; a request
\* that fails a check writes nothing.
C12_FirstFailingCheck ==
  \A i \in FormRequests :
    reqs[i].pc = "done" =>
      IF OptionWise[reqs[i].form] # Ok
        THEN reqs[i].result = OptionWise[reqs[i].form] /\ reqs[i].wrote = 0
        ELSE reqs[i].result \notin InputErrors

\* the form whose first option holds "<script" and whose second option is
\* too long got the invalid-characters error, and the form with a question
\* that is too long and a single option got the two-options error
C12_Witness ==
  /\ \E i \in FormRequests :
       /\ reqs[i].pc = "done" /\ reqs[i].form = 5 /\ reqs[i].result = ErrOptionChars
       /\ Len(Options(reqs[i])[2]) > 200 /\ HasScript(Options(reqs[i])[1])
  /\ \E i \in FormRequests :
       /\ reqs[i].pc = "done" /\ reqs[i].form = 10 /\ reqs[i].result = ErrInput
       /\ Len(Question(reqs[i])) > 500

\* C13: every stored poll has at least two options, and a request of
\* createPoll or updatePoll with a single option returns "Please provide a
\* question and at least two options." and writes nothing.
C13_AtLeastTwoOptions ==
  /\ \A p \in polls : Len(p.options) >= 2
  /\ \A i \in FormRequests :
       (reqs[i].pc = "done" /\ Len(Forms[reqs[i].form].options) = 1) =>
         (reqs[i].result = ErrInput /\ reqs[i].wrote = 0)

\* a createPoll and an updatePoll with the single option "o" were refused
\* and left the seed poll as the only poll, with its three options
C13_Witness ==
  /\ polls = {SeedPoll}
  /\ \E i, j \in FormRequests :
       /\ reqs[i].op = "createPoll" /\ reqs[j].op = "updatePoll"
       /\ reqs[i].form = 2 /\ reqs[j].form = 2
       /\ reqs[i].result = ErrInput /\ reqs[j].result = ErrInput
       /\ Forms[2].options = << <<"o">> >>

\* C14 as stated: every vote row of an existing poll has an option index
\* within the current options of that poll.
C14_VoteIndexInRange ==
  \A k \in DOMAIN votes : \A p \in polls :
    p.id = votes[k].poll_id =>
      (0 <= votes[k].option_index /\ votes[k].option_index < Len(p.options))

\* the caller of the request passes the admin gate
PassesGate(r) == User(r) # NoUser /\ IsAdmin(User(r))

AdminOps == {"adminDeletePoll", "getAdminPolls"}

\* an admin operation called by someone who does not pass the gate ends in
\* a redirect, has deleted nothing and returns no rows
C16_OthersRedirected ==
  \A i \in Finished :
    (reqs[i].op \in AdminOps /\ ~PassesGate(reqs[i])) =>
      /\ reqs[i].result = (IF User(reqs[i]) = NoUser THEN RedirectLogin ELSE RedirectPolls)
      /\ reqs[i].wrote = 0 /\ reqs[i].rows = <<>>

\* a step of adminDeletePoll removes the poll with the given id, whoever owns
\* it, when the caller passes the gate and the token is valid, and leaves
\* the polls alone otherwise
C16_AdminDeletes ==
  \A i \in DOMAIN reqs :
    (Acts(i) /\ reqs[i].op = "adminDeletePoll") =>
      IF PassesGate(reqs[i]) /\ ~TokenFails(reqs[i])
        THEN /\ polls' = {p \in polls : p.id # reqs[i].pollId}
             /\ reqs'[i].result = Ok
        ELSE polls' = polls

\* C16: adminDeletePoll and getAdminPolls act only for an identity with the
\* admin flag: for no identity or a non-admin they end in a redirect, delete
\* no row and return no poll rows; adminDeletePoll by an admin with a valid
\* token deletes the poll with the given id whoever owns it.
C16_AdminOnly == []C16_OthersRedirected /\ [][C16_AdminDeletes]_vars

\* the admin bob has deleted the seed poll of alice, and alice's call of
\* getAdminPolls ended in the redirect to /polls
C16_Witness ==
  /\ SeedPoll \notin polls
  /\ \E i \in Finished :
       /\ reqs[i].op = "adminDeletePoll" /\ reqs[i].sess = "sb" /\ reqs[i].pollId = 1
       /\ SeedPoll.user_id # User(reqs[i]) /\ reqs[i].result = Ok /\ reqs[i].wrote = 1
  /\ \E i \in Finished :
       /\ reqs[i].op = "getAdminPolls" /\ reqs[i].sess = "sa"
       /\ reqs[i].result = RedirectPolls

\* the rows of a list, as a set
Range(rows) == {rows[k] : k \in 1..Len(rows)}

\* a step of getUserPolls returns exactly the rows of the caller's identity,
\* each once and the newest first, and an empty list with the error "Not
\* authenticated" when no identity is resolved
C17_ReturnsOwnRows ==
  \A i \in DOMAIN reqs :
    (Acts(i) /\ reqs[i].op = "getUserPolls") =>
      LET rows == reqs'[i].rows
          u == User(reqs[i])
      IN IF u = NoUser
           THEN rows = <<>> /\ reqs'[i].result = ErrNotAuthenticated
           ELSE /\ reqs'[i].result = Ok
                /\ Range(rows) = {p \in polls : p.user_id = u}
                /\ Len(rows) = Cardinality(Range(rows))
                /\ \A k, l \in 1..Len(rows) :
                     k < l => rows[k].created_at > rows[l].created_at

\* a step of createPoll, updatePoll or deletePoll of one user leaves the
\* rows every other user would get as they are
C17_OthersLeaveRows ==
  \A i \in DOMAIN reqs :
    (Acts(i) /\ reqs[i].op \in {"createPoll", "updatePoll", "deletePoll"}) =>
      \A u \in Users \ {User(reqs[i])} :
        {p \in polls' : p.user_id = u} = {p \in polls : p.user_id = u}

PublicPath(path) ==
  StartsWith(path, LoginPath) \/ StartsWith(path, <<"/", "r", "e", "g", "i", "s", "t", "e", "r">>)

\* C18 as stated: a request that passes through the middleware without an
\* identity, for a path not under a public prefix, gets a redirect to the
\* login entry point as its response and does not go on to its route.
C18_AnonymousRedirectedToLogin ==
  \A i \in Finished :
    (/\ reqs[i].op = "page" /\ Matcher(reqs[i].path)
     /\ User(reqs[i]) = NoUser /\ ~PublicPath(reqs[i].path)) =>
      /\ reqs[i].rows[1].kind = "redirect"
      /\ reqs[i].rows[1].status \in 300..399
      /\ <<"Location", LoginPath>> \in reqs[i].rows[1].headers

\* the results a finished view of a poll's page has shown
Shown(i) == reqs[i].rows[1]
Views == {i \in Finished : reqs[i].op = "pollPage" /\ reqs[i].result = Ok}

\* the vote rows the view has read that have index x
RowsWith(i, x) == {k \in 1..Len(Shown(i).indices) : Shown(i).indices[k] = x}

\* C19 as stated: the results give one count per option, the count of
\* option x being the number of vote rows with index x; a vote row with an
\* index outside the poll's options adds no entry and is not counted in the
\* total number of votes.
C19_ResultsIgnoreOutOfRange ==
  \A i \in Views :
    /\ DOMAIN Shown(i).votesByOption = 0..(Shown(i).options - 1)
    /\ \A x \in 0..(Shown(i).options - 1) :
         Shown(i).votesByOption[x] = Cardinality(RowsWith(i, x))
    /\ Shown(i).totalVotes =
         Cardinality({k \in 1..Len(Shown(i).indices) :
                        Shown(i).indices[k] \in 0..(Shown(i).options - 1)})

\* the identity the server resolves for request i, and the requests to
\* update or delete a poll whose user_id is another identity's
Caller(i) == SessionUser(reqs[i].sess)
OwnerOps == {"updatePoll", "deletePoll"}
Foreign ==
  {i \in DOMAIN reqs :
     /\ reqs[i].op \in OwnerOps /\ Caller(i) # NoUser
     /\ \E p \in polls : p.id = reqs[i].pollId /\ p.user_id # Caller(i)}
OwnershipError(i) == IF reqs[i].op = "updatePoll" THEN ErrUpdateOwn ELSE ErrDeleteOwn
PassesChecks(i) ==
  /\ reqs[i].result \notin TokenErrors
  /\ reqs[i].result # ErrStoreNoRow
  /\ reqs[i].op = "updatePoll" => InputError[reqs[i].form] = Ok

\* C20 as stated: updatePoll or deletePoll called by an identity whose id
\* differs from the poll's user_id always fails with the ownership error,
\* whatever the payload contains.
C20_AlwaysOwnershipError ==
  \A i \in Foreign \cap Finished : reqs[i].result = OwnershipError(i)

\* C20 amended: such a call never reaches the write and never succeeds,
\* whatever the payload contains, a user_id naming the owner included; it
\* fails with the ownership error when it passes the token check and, for
\* updatePoll, the input validation, which come first, and its read of the
\* poll finds the row.
C20_NonOwnerFails ==
  \A i \in Foreign :
    /\ reqs[i].pc # "write"
    /\ reqs[i].wrote = 0
    /\ i \in Finished =>
         /\ reqs[i].result # Ok
         /\ PassesChecks(i) => reqs[i].result = OwnershipError(i)

\* C20 witness: bob's updatePoll and deletePoll of alice's poll, both with
\* the payload naming alice as user_id, ended in the ownership errors and
\* the poll is as it was.
C20_Witness ==
  /\ SeedPoll \in polls
  /\ \E i, j \in Foreign \cap Finished :
       /\ reqs[i].op = "updatePoll" /\ reqs[j].op = "deletePoll"
       /\ Caller(i) = "bob" /\ Caller(j) = "bob"
       /\ reqs[i].userId = "alice" /\ reqs[j].userId = "alice"
       /\ reqs[i].pollId = 1 /\ reqs[j].pollId = 1
       /\ reqs[i].result = ErrUpdateOwn /\ reqs[j].result = ErrDeleteOwn

\* C21: votes are immutable once cast: in every step of submitVote,
\* createPoll, updatePoll, deletePoll and adminDeletePoll each vote row that
\* exists is still there afterwards with the same poll_id, user_id and
\* option index.
C21_VotesImmutable ==
  [][\A k \in DOMAIN votes : k \in DOMAIN votes' /\ votes'[k] = votes[k]]_vars

\* C21 witness: a vote was cast for the seed poll and the poll was deleted
\* afterwards by a deletePoll or adminDeletePoll: the vote row is still there.
C21_Witness ==
  /\ PollRows(1) = {}
  /\ \E k \in DOMAIN votes : votes[k].poll_id = 1
  /\ \E i \in Finished :
       /\ reqs[i].op \in {"deletePoll", "adminDeletePoll"}
       /\ reqs[i].result = Ok /\ reqs[i].wrote = 1

\* the states of a poll id: absent (not yet given out), active (its row
\* exists), deleted (given out, its row is gone)
Absent(id) == id >= nextPollId
Active(id) == PollRows(id) # {}
Deleted(id) == id < nextPollId /\ PollRows(id) = {}
IdsSeen == 1..(nextPollId + 1)
LifeOps == {"updatePoll", "deletePoll", "submitVote"}

\* a step takes a poll id from absent to active only as the step of a
\* createPoll that returns success, it changes a row only while the row
\* exists, and a deleted id stays deleted
C22_Step ==
  \A id \in IdsSeen :
    /\ (~Active(id) /\ Active(id)') =>
         /\ Absent(id)
         /\ \E i \in DOMAIN reqs :
              Acts(i) /\ reqs[i].op = "createPoll" /\ reqs'[i].result = Ok
    /\ (PollRows(id)' # PollRows(id) /\ Active(id)') => (Active(id) \/ Absent(id))
    /\ Deleted(id) => Deleted(id)'

\* request i is a call of updatePoll, deletePoll or submitVote that has not
\* started and whose poll id is deleted
StartsOnDeleted(i) ==
  /\ i \in DOMAIN reqs
  /\ reqs[i].op \in LifeOps /\ reqs[i].pc = "start"
  /\ Deleted(reqs[i].pollId)
NoSuccess(i) ==
  i \in DOMAIN reqs =>
    reqs[i].result # Ok /\ reqs[i].wrote = 0 /\ reqs[i].pc \notin {"insert", "write"}

\* a call of updatePoll, deletePoll or submitVote that starts on a deleted
\* poll id never succeeds and never writes
C22_LaterCallsFail ==
  \A i \in 1..MaxReq : [](StartsOnDeleted(i) => []NoSuccess(i))

\* C22: each poll id goes absent -> active -> (edited)* -> deleted: it becomes
\* active only through a successful createPoll, is edited only while active,
\* a deleted id never has a row again, and every updatePoll, deletePoll and
\* submitVote started after the deletion fails and changes nothing.
C22_Lifecycle == [][C22_Step]_vars /\ C22_LaterCallsFail

\* C22 witness: the seed poll was deleted and a call on it made afterwards
\* failed on the missing row; no row has its id.
C22_Witness ==
  /\ Deleted(1)
  /\ \E j \in Finished :
       /\ reqs[j].op \in {"deletePoll", "adminDeletePoll"} /\ reqs[j].wrote = 1
       /\ \E i \in Finished :
            /\ i > j /\ reqs[i].op \in LifeOps /\ reqs[i].pollId = 1
            /\ reqs[i].result = ErrStoreNoRow /\ reqs[i].wrote = 0

\* C23 as stated: every stored poll's question has at most 500 characters
\* and each stored option at most 200 characters.
C23_StoredWithinLimits ==
  \A p \in polls :
    /\ Len(p.question) <= MaxQuestionLen
    /\ \A k \in 1..Len(p.options) : Len(p.options[k]) <= MaxOptionLen

\* C23 amended: the limits of 500 and 200 characters hold for the submitted
\* text; escaping comes after the length check and writes four characters
\* for each "<" and ">", so a stored question has at most 4 * 500 and a
\* stored option at most 4 * 200 characters.
C23_StoredWithinEscapedLimits ==
  \A p \in polls :
    /\ Len(p.question) <= Len(LtEntity) * MaxQuestionLen
    /\ \A k \in 1..Len(p.options) : Len(p.options[k]) <= Len(GtEntity) * MaxOptionLen

\* C23 witness: a question of 500 "<" and an option of 200 ">" were accepted
\* and are stored with 2000 and 800 characters.
C23_Witness ==
  \E p \in polls :
    /\ Len(p.question) = Len(LtEntity) * MaxQuestionLen
    /\ \E k \in 1..Len(p.options) : Len(p.options[k]) = Len(GtEntity) * MaxOptionLen
    /\ \E i \in Finished : reqs[i].result = Ok /\ Sanitized[reqs[i].form].question = p.question

\* C24 as stated: every state-changing action, in every copy of the action
\* modules, validates the CSRF token before it changes a row: a request that
\* is about to write or has written has passed the token validation.
C24_TokenValidatedBeforeWrite ==
  \A i \in DOMAIN reqs :
    (reqs[i].wrote > 0 \/ reqs[i].pc \in {"insert", "write"}) => reqs[i].valid = "yes"

\* the error of the token check of submitVote for request r
VoteTokenError(r) == IF r.csrf = NoToken THEN ErrMissingToken ELSE ErrInvalidTokenVote
VoteCalls == {i \in Finished : reqs[i].op = "submitVote"}

Affected(r) ==
  CASE r.op = "createPoll" -> {PollsPath}
    [] r.op = "updatePoll" -> {PollsPath, PollPath(r.pollId)}
    [] r.op = "submitVote" -> {PollPath(r.pollId)}
    [] r.op \in {"deletePoll", "adminDeletePoll"} -> {PollsPath}
    [] OTHER -> {}

\* a mutation that returns success has revalidated the views it affects, and
\* none of them is in the cache when it returns
C26_Step ==
  \A i \in DOMAIN reqs :
    (Acts(i) /\ reqs[i].op \in MutatingOps /\ reqs'[i].result = Ok /\ reqs[i].result # Ok) =>
      /\ Affected(reqs[i]) \subseteq reqs'[i].revalidate
      /\ \A c \in cache' : c.path \notin Affected(reqs[i])

\* no cached list shows a poll whose row is gone
C26_NoStaleList ==
  \A c \in cache : c.path = PollsPath => \A id \in c.ids : PollRows(id) # {}

\* C26 as stated: every successful poll mutation invalidates the cached views
\* it affects before it returns (createPoll the list, updatePoll the list and
\* the detail view, submitVote the detail view, deletePoll and adminDeletePoll
\* the list), so that after a successful delete no valid cached list shows
\* the deleted poll.
C26_MutationsInvalidateViews == []C26_NoStaleList /\ [][C26_Step]_vars

\* C27 as stated: when the row store reports a failure during a mutation the
\* operation returns a fixed error string and not the store's raw message;
\* a read returns the raw message.
C27_MutationsHideStoreMessage ==
  \A i \in Finished :
    reqs[i].storeError =>
      IF reqs[i].op \in MutatingOps THEN reqs[i].result \notin {Ok, StoreMessage}
      ELSE reqs[i].result = StoreMessage

\* a row that appears carries the identity resolved for the createPoll that
\* acts; a row that stays keeps its user_id and created_at; a step of
\* updatePoll leaves the votes, the other rows and the set of ids as they are
C28_Step ==
  /\ \A q \in polls' :
       (\A p \in polls : p.id # q.id) =>
         \E i \in DOMAIN reqs :
           Acts(i) /\ reqs[i].op = "createPoll" /\ q.user_id = SessionUser(reqs[i].sess)
  /\ \A p \in polls : \A q \in polls' :
       p.id = q.id => (q.user_id = p.user_id /\ q.created_at = p.created_at)
  /\ \A i \in DOMAIN reqs :
       (Acts(i) /\ reqs[i].op = "updatePoll") =>
         /\ votes' = votes
         /\ {p \in polls' : p.id # reqs[i].pollId} = {p \in polls : p.id # reqs[i].pollId}
         /\ {p.id : p \in polls'} = {p.id : p \in polls}

\* C28: a poll row's user_id is set by createPoll to the identity resolved
\* for the creating request and never changes; a successful updatePoll
\* changes only the question and options of the row with the given id and
\* leaves its id, user_id and created_at, every other poll row and every
\* vote row unchanged.
C28_UpdateChangesOnlyText == [][C28_Step]_vars

\* C28 witness: alice has voted on the seed poll and her updatePoll of it has
\* succeeded: the row holds the new question and options under the same id,
\* owner and creation time, and the vote row is there.
C28_Witness ==
  /\ \E i \in Finished :
       /\ reqs[i].op = "updatePoll" /\ reqs[i].result = Ok /\ reqs[i].wrote = 1
       /\ [SeedPoll EXCEPT !.question = Sanitized[reqs[i].form].question,
                           !.options = Sanitized[reqs[i].form].options] \in polls
  /\ SeedPoll \notin polls
  /\ \E k \in DOMAIN votes : votes[k].poll_id = 1 /\ votes[k].user_id = "alice"

\* the stored token of a session changes only in a step of that session: a
\* render of one of its pages or a request of it that acts
C29_Step ==
  \A t \in Sessions :
    jar'[t] # jar[t] =>
      \/ form'[t] = jar'[t] /\ nextTok'[t] = nextTok[t] + 1
      \/ \E i \in DOMAIN reqs : Acts(i) /\ reqs[i].sess = t

\* a validation that has passed was given a token generated for the session
\* of its request
C29_OwnTokenOnly ==
  \A i \in DOMAIN reqs :
    reqs[i].valid = "yes" => reqs[i].csrf[1] = reqs[i].sess

\* C29: the tokens of different sessions do not interfere: issuing or
\* validating a token in one session never changes the stored token of
\* another session, and a token issued to one session never passes
\* validation in another session.
C29_SessionsDoNotInterfere == []C29_OwnTokenOnly /\ [][C29_Step]_vars

\* C29 witness: both sessions hold a token; alice's session has offered the
\* token of bob's page and was refused, then passed with its own token, and
\* the stored token of bob's session is still the one of his page.
C29_Witness ==
  /\ jar["sb"] = form["sb"] /\ jar["sb"] # NoToken
  /\ \E i, j \in Finished :
       /\ reqs[i].sess = "sa" /\ reqs[i].csrf = jar["sb"]
       /\ reqs[i].stored # NoToken /\ reqs[i].valid = "no"
       /\ reqs[j].sess = "sa" /\ reqs[j].valid = "yes"
       /\ jar["sa"] = reqs[j].setCookie

\* a render gives the session a token no call has generated before, in the
\* cookie and in the page; a validation passes only with the token of the
\* page rendered last in the session and only while the cookie is there
C30_Step ==
  /\ \A s \in Sessions :
       form'[s] # form[s] =>
         /\ form'[s] = <<s, nextTok[s]>> /\ nextTok'[s] = nextTok[s] + 1
         /\ jar'[s] = form'[s]
  /\ \A i \in DOMAIN reqs :
       (reqs[i].valid = "none" /\ reqs'[i].valid = "yes") =>
         /\ reqs[i].csrf = form[reqs[i].sess]
         /\ jar[reqs[i].sess] # NoToken

\* C30 as stated: every render of a page with a mutating form issues a new
\* token that replaces the stored token of the session, so the token of a
\* page rendered earlier in the session no longer validates; a stored token
\* also stops validating once its lifetime of one hour has passed.
C30_RenderReplacesToken == [][C30_Step]_vars

\* the votes submitted through the page of their poll, right after it was
\* rendered for their session
ThroughPage ==
  {i \in DOMAIN reqs :
     /\ reqs[i].op \in {"submitVote", "submitVoteV2"}
     /\ reqs[i].path = PollPath(reqs[i].pollId)
     /\ i > 1 /\ reqs[i - 1].op = "pollPage" /\ reqs[i - 1].sess = reqs[i].sess}

\* the page shows the results view: hasVoted of SecurePollPage
ResultsView(i) == reqs[i].result = Ok

\* C31 as stated: a vote submitted through the poll detail page carries the
\* token rendered into that page; when a logged-in user who has not voted
\* picks a valid option and submits, with no other request of the session in
\* between, the vote is recorded and the page switches to the results view.
C31_PageVoteCarriesToken ==
  \A i \in ThroughPage :
    /\ reqs[i].csrf = reqs[i - 1].setCookie
    /\ reqs[i].pc = "done" => (reqs[i].wrote = 1 /\ ResultsView(i))

\* the requests sent by the "Delete Poll" form of the admin page
ThroughAdminPage ==
  {i \in DOMAIN reqs :
     reqs[i].op \in {"adminDeletePoll", "adminDeletePollV2"} /\ reqs[i].path = AdminPath}

\* C32 as stated: when an admin submits the "Delete Poll" form of the admin
\* page for an existing poll, the request reaches adminDeletePoll with a
\* valid CSRF token and the poll row is deleted.
C32_AdminFormDeletes ==
  \A i \in ThroughAdminPage :
    /\ reqs[i].csrf # NoToken
    /\ reqs[i].pc = "done" =>
         (reqs[i].valid = "yes" /\ reqs[i].result = Ok /\ PollRows(reqs[i].pollId) = {})

\* the step of an edit page request: what it returns for the rows and the
\* identity of the moment, and what it does to the token of its session
C33_Step ==
  \A i \in DOMAIN reqs :
    (Acts(i) /\ reqs[i].op = "editPage") =>
      LET r == reqs[i]
          s == r.sess
          rows == {p \in polls : p.id = r.pollId}
          owned == \E p \in rows : p.user_id = SessionUser(s) /\ SessionUser(s) # NoUser
          kept == /\ jar' = jar /\ form' = form /\ nextTok' = nextTok
                  /\ reqs'[i].setCookie = NoToken
      IN /\ rows = {} => (reqs'[i].result = "notFound" /\ kept)
         /\ (rows # {} /\ ~owned) =>
              (reqs'[i].result = "redirect:/polls/" \o ToString(r.pollId) /\ kept)
         /\ owned =>
              /\ reqs'[i].result = Ok
              /\ jar'[s] = <<s, nextTok[s]>> /\ form'[s] = jar'[s]
              /\ nextTok'[s] = nextTok[s] + 1
              /\ \A t \in Sessions \ {s} : jar'[t] = jar[t]

\* C33: the edit page is a page-level ownership guard: a request by no
\* identity or by an identity different from the poll's user_id ends in a
\* redirect to the poll's view, a request for an absent poll ends in
\* not-found, and in both cases no token is issued and the stored token of
\* the session is unchanged; only the owner gets the form, with a newly
\* issued token.
C33_EditPageGuard == [][C33_Step]_vars

\* C33 witness: bob, holding the token of an earlier page, was redirected
\* from the edit page of alice's poll and still holds that token; alice got
\* the form of her poll with a new token.
C33_Witness ==
  /\ \E i \in Finished :
       /\ reqs[i].op = "editPage" /\ reqs[i].sess = "sb" /\ reqs[i].pollId = 1
       /\ reqs[i].result = "redirect:/polls/1"
       /\ reqs[i].stored # NoToken /\ jar["sb"] = reqs[i].stored
  /\ \E j \in Finished :
       /\ reqs[j].op = "editPage" /\ reqs[j].sess = "sa" /\ reqs[j].pollId = 1
       /\ reqs[j].result = Ok /\ jar["sa"] = reqs[j].setCookie
       /\ jar["sa"] # NoToken

\* the mutating requests that have failed after their token check passed
FailedBehindCheck ==
  {i \in Finished :
     reqs[i].op \in MutatingOps /\ reqs[i].valid = "yes" /\ reqs[i].result # Ok}

\* the requests that repeat request i with its token
SameRequest(i, j) ==
  /\ reqs[j].op = reqs[i].op /\ reqs[j].sess = reqs[i].sess
  /\ reqs[j].csrf = reqs[i].csrf /\ reqs[j].pollId = reqs[i].pollId
  /\ reqs[j].idx = reqs[i].idx /\ reqs[j].form = reqs[i].form

\* a request that fails behind its token check changes no row and leaves its
\* session with a token other than the one it was sent with; a request sent
\* after such a failure, repeating it, does not carry that token as cookie
C34_Step ==
  /\ \A i \in DOMAIN reqs :
       (/\ Acts(i) /\ reqs[i].op \in MutatingOps /\ reqs'[i].pc = "done"
        /\ reqs'[i].valid = "yes" /\ reqs'[i].result # Ok) =>
         /\ polls' = polls /\ votes' = votes
         /\ jar'[reqs[i].sess] \notin {NoToken, reqs[i].csrf, jar[reqs[i].sess]}
  /\ Len(reqs') > Len(reqs) =>
       \A i \in FailedBehindCheck :
         (reqs'[Len(reqs')].sess = reqs[i].sess /\ reqs'[Len(reqs')].csrf = reqs[i].csrf) =>
           reqs'[Len(reqs')].stored # reqs[i].csrf

\* a finished repetition of a request that failed behind its token check,
\* sent with another cookie than its token, ended in the token error
C34_RetryRefused ==
  \A i \in FailedBehindCheck : \A j \in Finished :
    (j > i /\ SameRequest(i, j) /\ reqs[j].stored # reqs[j].csrf) =>
      (reqs[j].result \in TokenErrors /\ reqs[j].wrote = 0)

\* C34: a mutating operation that fails after its token check passed has
\* still consumed the token: the stored token of the session has been
\* rotated although no row changed, so that retrying the same request with
\* the same token fails with the security-token error.
C34_FailureConsumesToken == []C34_RetryRefused /\ [][C34_Step]_vars

\* C34 witness: bob's deletePoll of alice's poll passed the token check and
\* failed on the ownership check; the same request with the same token, sent
\* again, was refused for its token, and the poll is still there.
C34_Witness ==
  \E i \in FailedBehindCheck : \E j \in Finished :
    /\ j > i /\ SameRequest(i, j)
    /\ reqs[i].op = "deletePoll" /\ reqs[i].sess = "sb" /\ reqs[i].pollId = 1
    /\ reqs[j].stored = reqs[i].setCookie
    /\ reqs[j].result \in TokenErrors
    /\ SeedPoll \in polls

\* the step in which updatePoll or deletePoll returns success
C35_Step ==
  \A i \in DOMAIN reqs :
    (Acts(i) /\ reqs'[i].pc = "done" /\ reqs'[i].result = Ok) =>
      /\ reqs[i].op = "updatePoll" =>
           \E p \in polls' :
             /\ p.id = reqs[i].pollId
             /\ p.question = Sanitized[reqs[i].form].question
             /\ p.options = Sanitized[reqs[i].form].options
      /\ reqs[i].op = "deletePoll" =>
           /\ \E p \in polls : p.id = reqs[i].pollId
           /\ \A p \in polls' : p.id # reqs[i].pollId

\* C35 as stated: when updatePoll returns success, the row with the given id
\* exists and holds the sanitized question and options of that call at the
\* moment of its write, and when deletePoll returns success the row was
\* removed by that call, also when another request deletes the poll between
\* the ownership read and the write.
C35_SuccessMeansWritten == [][C35_Step]_vars

\* C36 as stated: in every reachable state every vote row refers to a poll
\* row that exists: submitVote inserts no vote for a poll deleted between its
\* read of the poll and its insert, and deletePoll and adminDeletePoll leave
\* no vote row of the deleted poll behind.
C36_VotesReferToPolls ==
  \A k \in DOMAIN votes : \E p \in polls : p.id = votes[k].poll_id

ReadOps == {"getPollById", "getUserPolls", "getAdminPolls"}

\* a step of a read leaves the tokens and the rows as they are, and so does a
\* validation that fails; getPollById returns the row of the id, if there is
\* one, whoever calls
C37_Step ==
  \A i \in DOMAIN reqs :
    Acts(i) =>
      /\ reqs[i].op \in ReadOps =>
           /\ jar' = jar /\ polls' = polls /\ votes' = votes
           /\ reqs'[i].setCookie = NoToken
      /\ (reqs[i].valid = "none" /\ reqs'[i].valid = "no") =>
           (jar' = jar /\ reqs'[i].setCookie = NoToken)
      /\ reqs[i].op = "getPollById" =>
           IF \E p \in polls : p.id = reqs[i].pollId
             THEN /\ reqs'[i].result = Ok
                  /\ Len(reqs'[i].rows) = 1 /\ reqs'[i].rows[1] \in polls
                  /\ reqs'[i].rows[1].id = reqs[i].pollId
             ELSE reqs'[i].result # Ok /\ reqs'[i].rows = <<>>

\* C37: a failed token validation and the reads change nothing:
\* validateCsrfToken returning false leaves the stored token of the session
\* unchanged, and getPollById, getUserPolls and getAdminPolls leave the
\* stored token, every poll row and every vote row unchanged; getPollById
\* returns the poll for any caller, with or without identity and whoever
\* owns it.
C37_ReadsChangeNothing == [][C37_Step]_vars

\* C37 witness: an anonymous caller has read alice's poll by its id, and a
\* validation in a session that holds a token has returned false and left
\* that token stored.
C37_Witness ==
  /\ \E i \in Finished :
       /\ reqs[i].op = "getPollById" /\ reqs[i].sess = "sn"
       /\ reqs[i].result = Ok /\ reqs[i].rows = <<SeedPoll>>
  /\ \E j \in Finished :
       /\ reqs[j].op = "validateCsrfToken" /\ reqs[j].result = "false"
       /\ reqs[j].stored # NoToken /\ reqs[j].csrf # NoToken
       /\ jar[reqs[j].sess] = reqs[j].stored

\* C38 as stated: in every reachable state every stored poll has a non-empty
\* question and only non-empty options: createPoll and updatePoll never
\* write a question or an option that is empty after sanitizing and
\* trimming.
C38_StoredTextsNonEmpty ==
  \A p \in polls :
    /\ p.question # <<>>
    /\ \A k \in DOMAIN p.options : p.options[k] # <<>>

\* the step of an adminDeletePoll of a caller who is no admin: it ends in
\* the redirect of the gate, no validation has run, no cookie is set and the
\* tokens and the rows are as before
C39_Step ==
  \A i \in DOMAIN reqs :
    (Acts(i) /\ reqs[i].op = "adminDeletePoll" /\ ~IsAdmin(SessionUser(reqs[i].sess))) =>
      /\ reqs'[i].pc = "done"
      /\ reqs'[i].result =
           (IF SessionUser(reqs[i].sess) = NoUser THEN RedirectLogin ELSE RedirectPolls)
      /\ reqs'[i].valid = "none" /\ reqs'[i].setCookie = NoToken
      /\ jar' = jar /\ nextTok' = nextTok /\ form' = form
      /\ polls' = polls /\ votes' = votes

\* C39: adminDeletePoll checks the admin role before the token: a call by a
\* non-admin or anonymous caller ends at the admin gate without reading or
\* rotating the stored token of the session, so that the caller's token
\* stays valid for a later request.
C39_GateBeforeToken == [][C39_Step]_vars

\* C39 witness: alice's adminDeletePoll with the token of her page ended in
\* the redirect to /polls, and her deletePoll, sent afterwards with the same
\* token and cookie, passed the token check and deleted her poll.
C39_Witness ==
  \E i, j \in Finished :
    /\ i < j /\ reqs[i].sess = "sa" /\ reqs[j].sess = "sa"
    /\ reqs[i].op = "adminDeletePoll" /\ reqs[i].result = RedirectPolls
    /\ reqs[i].csrf # NoToken /\ reqs[i].csrf = reqs[i].stored
    /\ reqs[j].op = "deletePoll" /\ reqs[j].csrf = reqs[i].csrf
    /\ reqs[j].stored = reqs[i].stored
    /\ reqs[j].valid = "yes" /\ reqs[j].result = Ok /\ reqs[j].wrote = 1

====
